---------------------------- MODULE Spec2Model ----------------------------
(***************************************************************************)
(* A model of the real-time measurement harness: the timespec arithmetic   *)
(* of common/rt_time.h (timeDiffInTimespec) and the interruptible delay    *)
(* measurement loop of week2/assignment2/posix_clock.cpp (delayTest).      *)
(*                                                                         *)
(* The specifications share the variables:                                 *)
(*   SpecDiff - one call of timeDiffInTimespec on inputs drawn from a      *)
(*              bounded grid of time points;                               *)
(*   Spec     - delayTest, one step per clock query, sleep request,        *)
(*              REDUCE and REPORT;                                         *)
(*   FairSpec - Spec, every call returning (weak fairness of Next);        *)
(*   SpecMain - main of posix_clock.cpp and the measurement thread it      *)
(*              creates, which runs delayTest;                             *)
(*   SpecSched - one call of adjustScheduler from the main thread, on      *)
(*              arguments and library-call outcomes drawn from bounded     *)
(*              sets;                                                      *)
(*   SpecSpawn - the worker-spawning programs (assignments 2 and 3): main, *)
(*              spawnThreads, the starter thread and the workers;          *)
(*   SpecFormat - one call of format_va, one step per pass of its loop;    *)
(*   SpecDiff3 - one call of the three-argument timeDiffInTimespec.        *)
(***************************************************************************)
EXTENDS Integers, Sequences, FiniteSets

VARIABLES
    \* ---- one call of timeDiffInTimespec (SpecDiff) ----
    dPc,            \* "call" before the call, "done" after it, "idle" under Spec
    rtStart,        \* argument rtStart
    rtStop,         \* argument rtStop
    rtDiff,         \* in/out argument rtDiff: the caller's variable
    rbIgnoreNegDelta, \* argument rbIgnoreNegDelta
    dRc,            \* the returned ErrCode
    \* ---- delayTest (Spec) ----
    pc,             \* position in delayTest
    reClockTypeId,  \* the clock selector
    dIdx,           \* loop index
    tRtcStartTime, tRtcStopTime, tRtcDiff, tDelayError,
    tSleepTime, tSleepRequested, tRemainingTime,
    dSleepCount,
    ret,            \* value returned by delayTest (meaningful when pc = "returned")
    stage,          \* history: the step of delayTest that ran last
    sleepOutcome,   \* history: how the last sleep request of the iteration ended
    nInterrupted,   \* history: interrupted sleep requests of the iteration
    lastClockRc,    \* history: what the last getTime call returned
    ignoreArgs,     \* history: the rbIgnoreNegDelta arguments REDUCE passed last
    \* ---- main and the measurement thread (SpecMain) ----
    mainPc,         \* position in main
    tSyslogErr,     \* const auto tSyslogErr
    exitCode,       \* argument of exit() (meaningful when mainPc = "exited")
    testCompleteLogged, \* "TEST COMPLETE" was logged
    testThread,     \* "none", "running" or "terminated"
    closelogRan,    \* the handler of tSyslogGuard (closelog) has run
    mainLog,        \* history: the messages the main thread has logged
    nAdjustCalls,   \* history: calls of adjustScheduler made by main
    \* ---- adjustScheduler (SpecSched, SpecMain) ----
    sPc,            \* "call" before the call, "done" after it, "idle" otherwise
    rtCpuSet,       \* argument rtCpuSet
    rtNewPolicy,    \* argument rtNewPolicy
    rtAdjustedAttr, \* in/out argument rtAdjustedAttr: the caller's bundle
    rbVerbose,      \* argument rbVerbose
    failingCall,    \* the library call that reports an error, or "none"
    attrBytes,      \* sizeof(pthread_attr_t) of the build
    threadSched,    \* live policy and priority of the calling (main) thread
    schedBefore,    \* history: threadSched when adjustScheduler was entered
    sRc,            \* the returned ErrCode
    sSteps,         \* history: the library calls made, in order
    sLog,           \* history: the messages adjustScheduler logged
    \* ---- the worker-spawning programs (SpecSpawn) ----
    program,        \* "assignment2" (main spawns) or "assignment3" (starter thread)
    wMainPc,        \* position in main
    wSyslogErr,     \* const auto tSyslogErr of that main
    pFile,          \* pushUnameOutput: "unset", "null", "open" or "closed"
    nPclose,        \* history: calls of pclose made by pushUnameOutput
    unameLogged,    \* history: the uname line was pushed to Syslog
    tWorkerThreadsAttr, \* the bundle adjustScheduler filled in (assignment 3)
    starter,        \* the starter thread: "none", "spawning", "joining", "terminated"
    spawnPc,        \* spawnThreads: "idle", "loop" or "returned"
    dSpawnIdx,      \* size_t dIdx of spawnThreads
    tErr,           \* what spawnThreads returned
    aThreads,       \* the entries: slot -> [dThreadIdx, created]
    worker,         \* slot -> "none", "started", "read", "logged", "terminated"
    workerIdx,      \* slot -> const auto dIdx of the worker
    workerLog,      \* slot -> the values of the worker's Syslog line, or <<>>
    dJoined,        \* entries the join loop has passed
    completePrinted, \* "TEST COMPLETE" was printed
    wExitCode,      \* argument of exit() (meaningful when wMainPc = "exited")
    \* ---- one call of format_va (SpecFormat) ----
    fPc,            \* "loop", "terminate", "returned", "aborted", "crashed", "idle"
    fLen,           \* length of the formatted message
    fErrors,        \* calls of vsnprintf that still report an output error
    dBufLen,        \* int dBufLen
    dAttempt,       \* size_t dAttempt
    tFmtBuffer,     \* the vector: [size, chars] (chars written before the NUL)
    fOutside,       \* history: an element outside the vector was written
    fResult         \* length of the returned string

diffVars == <<dPc, rtStart, rtStop, rtDiff, rbIgnoreNegDelta, dRc>>
delayVars == <<pc, reClockTypeId, dIdx, tRtcStartTime, tRtcStopTime, tRtcDiff,
               tDelayError, tSleepTime, tSleepRequested, tRemainingTime,
               dSleepCount, ret, stage, sleepOutcome, nInterrupted,
               lastClockRc, ignoreArgs>>
mainVars == <<mainPc, tSyslogErr, exitCode, testCompleteLogged, testThread,
              closelogRan, mainLog, nAdjustCalls>>
schedVars == <<sPc, rtCpuSet, rtNewPolicy, rtAdjustedAttr, rbVerbose,
               failingCall, attrBytes, threadSched, schedBefore, sRc, sSteps,
               sLog>>
spawnVars == <<program, wMainPc, wSyslogErr, pFile, nPclose, unameLogged,
               tWorkerThreadsAttr, starter, spawnPc, dSpawnIdx, tErr, aThreads,
               worker, workerIdx, workerLog, dJoined, completePrinted,
               wExitCode>>
fmtVars == <<fPc, fLen, fErrors, dBufLen, dAttempt, tFmtBuffer, fOutside,
             fResult>>
vars == <<diffVars, delayVars, mainVars, schedVars, spawnVars, fmtVars>>

---------------------------------------------------------------------------
\* Program constants.

\* rt_time.h: units.
NSEC_PER_SEC == 1000000000
NSEC_PER_MSEC == 1000000

\* cmn::ErrCode (the version that has CLOCK_ERROR and TEST_FAILED).
OK == 0
PTHREAD_ERR == -1
NOT_READY == -2
NOT_SUPPORTED == -3
NOT_ENABLED == -4
NOT_IMPLEMENTED == -5
ALREADY_ENABLED == -6
OVERFLOW == -7
SCHED_FAILURE == -8
INVALID_ARGS == -9
CLOCK_ERROR == -10
TEST_FAILED == -11

\* ErrCode::GENERAL_ERR has no initialiser: the enumerator before it plus one.
GENERAL_ERR == TEST_FAILED + 1

\* <sched.h>: the policies getSchedulerPolicyStr names, and the capacity of a
\* cpu_set_t.
SCHED_OTHER == 0
SCHED_FIFO == 1
SCHED_RR == 2
SCHED_BATCH == 3
SCHED_IDLE == 5
\* A Linux policy that getSchedulerPolicyStr has no case for.
SCHED_DEADLINE == 6
CPU_SETSIZE == 1024

\* posix_clock.cpp
MAX_SLEEP_COUNT == 3
dTestSleepSeconds == 0
dTestSleepNanoseconds == NSEC_PER_MSEC * 10

\* errno.h value the return code of nanosleep is compared with.
EINTR == 4

\* The worker-spawning programs: the index of the first worker.
THREADS_START_IDX == 1

---------------------------------------------------------------------------
\* Bounds of the model.

\* Seconds fields of the time points given to timeDiffInTimespec: 0..MaxSec.
MaxSec == 2
\* Nanosecond fields given to timeDiffInTimespec: multiples of NsecStep up to
\* MaxNsecSteps * NsecStep (beyond one second: un-normalised inputs), and the
\* values one nanosecond below each multiple.
MaxNsecSteps == 13

NsecStep == 100 * NSEC_PER_MSEC

\* Iterations of the measurement loop the model runs (the program runs 100).
MaxIterations == 2
\* Clock readings: seconds 0..MaxClockSec, nanoseconds the multiples of
\* ClockStep up to MaxClockSteps * ClockStep and the last step below a second.
MaxClockSec == 1
MaxClockSteps == 2

ClockStep == 5 * NSEC_PER_MSEC

\* Worker threads the model spawns (the programs spawn 128).
MaxThreads == 3
NUM_THREADS == MaxThreads
\* Formatted-message lengths given to format_va: the multiples of the initial
\* buffer size up to MaxFormatBlocks of them, and the lengths next to each.
MaxFormatBlocks == 8
\* Calls of vsnprintf that report an output error before one succeeds.
MaxOutputErrors == 3

---------------------------------------------------------------------------
\* timespec values.

Timespec(s, n) == [tv_sec |-> s, tv_nsec |-> n]

ZeroTimespec == Timespec(0, 0)

\* The instant a (tv_sec, tv_nsec) pair denotes, as the pair with the
\* nanoseconds brought into [0, NSEC_PER_SEC): two pairs denote the same
\* number of nanoseconds iff their canonical pairs are equal.
Canonical(t) ==
    Timespec(t.tv_sec + (t.tv_nsec \div NSEC_PER_SEC), t.tv_nsec % NSEC_PER_SEC)

\* t1 is not later than t2.
NotLater(t1, t2) ==
    LET c1 == Canonical(t1)
        c2 == Canonical(t2)
    IN  \/ c1.tv_sec < c2.tv_sec
        \/ c1.tv_sec = c2.tv_sec /\ c1.tv_nsec <= c2.tv_nsec

Normalized(t) == t.tv_nsec >= 0 /\ t.tv_nsec < NSEC_PER_SEC

NsecValues ==
    {k * NsecStep : k \in 0..MaxNsecSteps} \cup
    {k * NsecStep - 1 : k \in 1..MaxNsecSteps}

DiffTimePoints == {Timespec(s, n) : s \in 0..MaxSec, n \in NsecValues}

\* What the caller's rtDiff may hold before the call: zero-initialised, or the
\* result of an earlier call (delayTest reuses tRtcDiff and tDelayError).
PriorDiffs == {ZeroTimespec, Timespec(1, NsecStep), Timespec(0, 10 * NSEC_PER_MSEC)}

---------------------------------------------------------------------------
\* rt_time.h: timeDiffInTimespec. The result is the returned code and the value
\* of the caller's rtDiff after the call (diff is its value before the call).

\* Mutant of timeDiffSameSecond: the negative delta is rejected whatever the flag.
timeDiffSameSecond_FlagIgnored(dDeltaNsec, diff, ignoreNegDelta) ==
    IF dDeltaNsec < 0
    THEN [rc |-> OVERFLOW, diff |-> diff]
    ELSE IF dDeltaNsec >= 0 /\ dDeltaNsec < NSEC_PER_SEC
         THEN [rc |-> OK, diff |-> Timespec(0, dDeltaNsec)]
         ELSE [rc |-> OK, diff |-> Timespec(1, dDeltaNsec - NSEC_PER_SEC)]

\* Mutant of timeDiffSameSecond: "<= 0" for "< 0" in the negative-delta test.
timeDiffSameSecond_ZeroIsNegative(dDeltaNsec, diff, ignoreNegDelta) ==
    IF dDeltaNsec <= 0
    THEN IF ~ignoreNegDelta
         THEN [rc |-> OVERFLOW, diff |-> diff]
         ELSE [rc |-> OK, diff |-> diff]
    ELSE IF dDeltaNsec >= 0 /\ dDeltaNsec < NSEC_PER_SEC
         THEN [rc |-> OK, diff |-> Timespec(0, dDeltaNsec)]
         ELSE [rc |-> OK, diff |-> Timespec(1, dDeltaNsec - NSEC_PER_SEC)]

\* The branch dDeltaSec == 0 (lines 86-120).
timeDiffSameSecond(dDeltaNsec, diff, ignoreNegDelta) ==
    IF dDeltaNsec < 0
    THEN \* The end point occurs earlier than the start: rtDiff is not written.
         IF ~ignoreNegDelta
         THEN [rc |-> OVERFLOW, diff |-> diff]
         ELSE [rc |-> OK, diff |-> diff]
    ELSE IF dDeltaNsec >= 0 /\ dDeltaNsec < NSEC_PER_SEC
         THEN [rc |-> OK, diff |-> Timespec(0, dDeltaNsec)]
         ELSE [rc |-> OK, diff |-> Timespec(1, dDeltaNsec - NSEC_PER_SEC)]

\* Mutant of timeDiffSpanSeconds: the borrow corrects the nanoseconds only.
timeDiffSpanSeconds_NoSecondBorrowed(dDeltaSec, dDeltaNsec, diff) ==
    IF dDeltaNsec >= 0 /\ dDeltaNsec < NSEC_PER_SEC
    THEN [rc |-> OK, diff |-> Timespec(dDeltaSec, dDeltaNsec)]
    ELSE IF dDeltaNsec > NSEC_PER_SEC
         THEN [rc |-> OK,
               diff |-> Timespec(diff.tv_sec + 1, dDeltaNsec - NSEC_PER_SEC)]
         ELSE [rc |-> OK,
               diff |-> Timespec(dDeltaSec, dDeltaNsec + NSEC_PER_SEC)]

\* Mutant of timeDiffSpanSeconds: the borrow is taken from the caller's old
\* seconds (--rtDiff.tv_sec) instead of from the second-delta.
timeDiffSpanSeconds_BorrowFromOld(dDeltaSec, dDeltaNsec, diff) ==
    IF dDeltaNsec >= 0 /\ dDeltaNsec < NSEC_PER_SEC
    THEN [rc |-> OK, diff |-> Timespec(dDeltaSec, dDeltaNsec)]
    ELSE IF dDeltaNsec > NSEC_PER_SEC
         THEN [rc |-> OK,
               diff |-> Timespec(diff.tv_sec + 1, dDeltaNsec - NSEC_PER_SEC)]
         ELSE [rc |-> OK,
               diff |-> Timespec(diff.tv_sec - 1, dDeltaNsec + NSEC_PER_SEC)]

\* The branch dDeltaSec != 0 (lines 121-145).
timeDiffSpanSeconds(dDeltaSec, dDeltaNsec, diff) ==
    IF dDeltaNsec >= 0 /\ dDeltaNsec < NSEC_PER_SEC
    THEN \* The normal case.
         [rc |-> OK, diff |-> Timespec(dDeltaSec, dDeltaNsec)]
    ELSE IF dDeltaNsec > NSEC_PER_SEC
         THEN \* ++rtDiff.tv_sec: the caller's old seconds plus one.
              [rc |-> OK,
               diff |-> Timespec(diff.tv_sec + 1, dDeltaNsec - NSEC_PER_SEC)]
         ELSE \* dDeltaNsec < 0, and dDeltaNsec == NSEC_PER_SEC as well.
              [rc |-> OK,
               diff |-> Timespec(dDeltaSec - 1, dDeltaNsec + NSEC_PER_SEC)]

timeDiffInTimespec(start, stop, diff, ignoreNegDelta) ==
    LET dDeltaSec == stop.tv_sec - start.tv_sec
        dDeltaNsec == stop.tv_nsec - start.tv_nsec
    IN  IF dDeltaSec = 0
        THEN timeDiffSameSecond(dDeltaNsec, diff, ignoreNegDelta)
        ELSE timeDiffSpanSeconds(dDeltaSec, dDeltaNsec, diff)

---------------------------------------------------------------------------
\* SpecDiff: one call of timeDiffInTimespec.

DelayIdle ==
    /\ pc = "idle"
    /\ reClockTypeId = "MonotonicRaw"
    /\ dIdx = 0
    /\ tRtcStartTime = ZeroTimespec
    /\ tRtcStopTime = ZeroTimespec
    /\ tRtcDiff = ZeroTimespec
    /\ tDelayError = ZeroTimespec
    /\ tSleepTime = ZeroTimespec
    /\ tSleepRequested = ZeroTimespec
    /\ tRemainingTime = ZeroTimespec
    /\ dSleepCount = 0
    /\ ret = OK
    /\ stage = "none"
    /\ sleepOutcome = "none"
    /\ nInterrupted = 0
    /\ lastClockRc = OK
    /\ ignoreArgs = <<>>

MainIdle ==
    /\ mainPc = "idle"
    /\ tSyslogErr = OK
    /\ exitCode = 0
    /\ testCompleteLogged = FALSE
    /\ testThread = "none"
    /\ closelogRan = FALSE
    /\ mainLog = <<>>
    /\ nAdjustCalls = 0

\* A pthread_attr_t as "pthread_attr_t x {}" and pthread_attr_init leave it:
\* inherited scheduling, SCHED_OTHER, priority 0, no affinity mask.
DefaultAttr ==
    [inheritsched |-> "PTHREAD_INHERIT_SCHED", schedpolicy |-> SCHED_OTHER,
     sched_priority |-> 0, hasAffinity |-> FALSE, cpuset |-> {}]

\* The scheduling a process starts with.
DefaultSched == [policy |-> SCHED_OTHER, priority |-> 0]

SchedIdle ==
    /\ sPc = "idle"
    /\ rtCpuSet = {}
    /\ rtNewPolicy = SCHED_OTHER
    /\ rtAdjustedAttr = DefaultAttr
    /\ rbVerbose = FALSE
    /\ failingCall = "none"
    /\ attrBytes = 0
    /\ threadSched = DefaultSched
    /\ schedBefore = DefaultSched
    /\ sRc = OK
    /\ sSteps = <<>>
    /\ sLog = <<>>

\* A std::array of ThreadEntry before spawnThreads has touched it.
NoThreads == [p \in 1..NUM_THREADS |-> [dThreadIdx |-> 0, created |-> FALSE]]

SpawnIdle ==
    /\ program = "none"
    /\ wMainPc = "idle"
    /\ wSyslogErr = OK
    /\ pFile = "unset"
    /\ nPclose = 0
    /\ unameLogged = FALSE
    /\ tWorkerThreadsAttr = DefaultAttr
    /\ starter = "none"
    /\ spawnPc = "idle"
    /\ dSpawnIdx = 0
    /\ tErr = OK
    /\ aThreads = NoThreads
    /\ worker = [p \in 1..NUM_THREADS |-> "none"]
    /\ workerIdx = [p \in 1..NUM_THREADS |-> 0]
    /\ workerLog = [p \in 1..NUM_THREADS |-> <<>>]
    /\ dJoined = 0
    /\ completePrinted = FALSE
    /\ wExitCode = 0

FormatIdle ==
    /\ fPc = "idle"
    /\ fLen = 0
    /\ fErrors = 0
    /\ dBufLen = 0
    /\ dAttempt = 0
    /\ tFmtBuffer = [size |-> 0, chars |-> 0]
    /\ fOutside = FALSE
    /\ fResult = 0

InitDiff ==
    /\ dPc = "call"
    /\ rtStart \in DiffTimePoints
    /\ rtStop \in DiffTimePoints
    /\ rtDiff \in PriorDiffs
    /\ rbIgnoreNegDelta \in BOOLEAN
    /\ dRc = OK
    /\ DelayIdle
    /\ MainIdle
    /\ SchedIdle
    /\ SpawnIdle
    /\ FormatIdle

CallTimeDiff ==
    /\ dPc = "call"
    /\ LET r == timeDiffInTimespec(rtStart, rtStop, rtDiff, rbIgnoreNegDelta)
       IN  /\ dRc' = r.rc
           /\ rtDiff' = r.diff
    /\ dPc' = "done"
    /\ UNCHANGED <<rtStart, rtStop, rbIgnoreNegDelta>>
    /\ UNCHANGED spawnVars
    /\ UNCHANGED fmtVars
    /\ UNCHANGED delayVars
    /\ UNCHANGED mainVars
    /\ UNCHANGED schedVars

NextDiff == CallTimeDiff

SpecDiff == InitDiff /\ [][NextDiff]_vars

\* The raw deltas of the call.
RawDeltaSec == rtStop.tv_sec - rtStart.tv_sec
RawDeltaNsec == rtStop.tv_nsec - rtStart.tv_nsec

---------------------------------------------------------------------------
\* posix_clock.cpp: delayTest, and the system calls it makes.

\* rt_time::ClockTypeId.
ClockTypeIds ==
    {"RealTime", "Monotonic", "MonotonicRaw", "RealTimeCoarse", "MonotonicCoarse"}

\* The clocks the system never sets back; the real-time clocks can be stepped
\* in either direction between two readings.
MonotonicClocks == {"Monotonic", "MonotonicRaw", "MonotonicCoarse"}

ClockNsecValues ==
    {k * ClockStep : k \in 0..MaxClockSteps} \cup {NSEC_PER_SEC - ClockStep}

ClockPoints == {Timespec(s, n) : s \in 0..MaxClockSec, n \in ClockNsecValues}

\* clock_gettime: the readings a query of clock id may give after the reading
\* last; the nanoseconds of a reading are always in [0, NSEC_PER_SEC).
ClockReadings(id, last) ==
    IF id \in MonotonicClocks
    THEN {t \in ClockPoints : NotLater(last, t)}
    ELSE ClockPoints

\* rt_time.h: getTime. CLOCK_ERROR when clock_gettime fails (the output is then
\* left as it was), OK with the reading otherwise.
getTime(id, last, output) ==
    {[rc |-> CLOCK_ERROR, output |-> output]} \cup
    {[rc |-> OK, output |-> t] : t \in ClockReadings(id, last)}

\* rt_time.h: getClockResolution, its return code only.
getClockResolution == {OK, CLOCK_ERROR}

\* nanosleep: the ways a request can end. An interrupted request reports the
\* time that was left, at most the time requested.
SleepOutcomes == {"slept", "interrupted", "failed"}

Remainders(req) ==
    {Timespec(0, n) : n \in {k * ClockStep : k \in 0..MaxClockSteps} \cap 0..req.tv_nsec}

\* The value nanosleep returns. POSIX: 0, or -1 with errno set (EINTR for an
\* interruption). The code compares the returned value itself with EINTR, so the
\* model also admits a call returning the error number, the convention the
\* loop is written for.
NanosleepReturn(outcome) ==
    CASE outcome = "slept" -> {0}
      [] outcome = "interrupted" -> {-1, EINTR}
      [] outcome = "failed" -> {-1}

\* Mutant of bIgnoreNegDeltaErrs: negative deltas are ignored for every clock.
bIgnoreNegDeltaErrs_Always == TRUE

\* const bool bIgnoreNegDeltaErrs (line 44).
bIgnoreNegDeltaErrs == reClockTypeId # "MonotonicRaw"

\* Mutant of SleepLoopContinues: "<=" for "<" in the retry bound.
SleepLoopContinues_OneMore(remaining, count) ==
    /\ (remaining.tv_sec > 0 \/ remaining.tv_nsec > 0)
    /\ count <= MAX_SLEEP_COUNT

\* The condition of the do-while loop (lines 114-115).
SleepLoopContinues(remaining, count) ==
    /\ (remaining.tv_sec > 0 \/ remaining.tv_nsec > 0)
    /\ count < MAX_SLEEP_COUNT

\* The loop count of the model.
dTestIterations == MaxIterations

\* Mutant of SleepRequestFailed: every non-zero return is retried.
SleepRequestFailed_Never(dRcSleep) == FALSE

\* "if (dRc != EINTR)" (line 96), reached with dRc # 0.
SleepRequestFailed(dRcSleep) == dRcSleep # EINTR

\* Mutant of PreparedSleepTime: the sleep time is set up once, before the
\* loop, so a later iteration starts from what the last retry left.
PreparedSleepTime_SetUpOnce ==
    IF dIdx = 0
    THEN Timespec(dTestSleepSeconds, dTestSleepNanoseconds)
    ELSE tSleepTime

\* PREPARE: tSleepTime as lines 75-76 set it.
PreparedSleepTime == Timespec(dTestSleepSeconds, dTestSleepNanoseconds)

\* Mutant of InitialSleepCount: the counter is not reset per iteration.
InitialSleepCount_Carried == dSleepCount

\* "size_t dSleepCount = 0" (line 87).
InitialSleepCount == 0

DiffIdle ==
    /\ dPc = "idle"
    /\ rtStart = ZeroTimespec
    /\ rtStop = ZeroTimespec
    /\ rtDiff = ZeroTimespec
    /\ rbIgnoreNegDelta = FALSE
    /\ dRc = OK

\* delayTest is entered: all its timespec locals are zero-initialised.
Init ==
    /\ pc = "resolution"
    /\ reClockTypeId \in ClockTypeIds
    /\ dIdx = 0
    /\ tRtcStartTime = ZeroTimespec
    /\ tRtcStopTime = ZeroTimespec
    /\ tRtcDiff = ZeroTimespec
    /\ tDelayError = ZeroTimespec
    /\ tSleepTime = ZeroTimespec
    /\ tSleepRequested = ZeroTimespec
    /\ tRemainingTime = ZeroTimespec
    /\ dSleepCount = 0
    /\ ret = OK
    /\ stage = "none"
    /\ sleepOutcome = "none"
    /\ nInterrupted = 0
    /\ lastClockRc = OK
    /\ ignoreArgs = <<>>
    /\ DiffIdle
    /\ MainIdle
    /\ SchedIdle
    /\ SpawnIdle
    /\ FormatIdle

Return(code) ==
    /\ ret' = code
    /\ pc' = "returned"

\* Lines 46-56 and the entry of the for loop (line 71).
GetClockResolution ==
    /\ pc = "resolution"
    /\ stage' = "resolution"
    /\ \E rc \in getClockResolution :
           IF rc # OK
           THEN Return(TEST_FAILED)
           ELSE /\ pc' = IF dIdx < dTestIterations THEN "start" ELSE "returned"
                /\ ret' = OK
    /\ UNCHANGED <<reClockTypeId, dIdx, tRtcStartTime, tRtcStopTime, tRtcDiff,
                   tDelayError, tSleepTime, tSleepRequested, tRemainingTime,
                   dSleepCount, sleepOutcome, nInterrupted, lastClockRc,
                   ignoreArgs>>
    /\ UNCHANGED diffVars
    /\ UNCHANGED spawnVars
    /\ UNCHANGED fmtVars
    /\ UNCHANGED mainVars
    /\ UNCHANGED schedVars

\* PREPARE and START_TIMESTAMP (lines 73-87).
StartTimestamp ==
    /\ pc = "start"
    /\ stage' = "start"
    /\ tSleepTime' = PreparedSleepTime
    /\ tSleepRequested' = tSleepTime'
    /\ sleepOutcome' = "none"
    /\ nInterrupted' = 0
    /\ \E r \in getTime(reClockTypeId, tRtcStopTime, tRtcStartTime) :
           /\ tRtcStartTime' = r.output
           /\ lastClockRc' = r.rc
           /\ IF r.rc # OK
              THEN /\ Return(TEST_FAILED)
                   /\ UNCHANGED dSleepCount
              ELSE /\ dSleepCount' = InitialSleepCount
                   /\ pc' = "sleep"
                   /\ UNCHANGED ret
    /\ UNCHANGED <<reClockTypeId, dIdx, tRtcStopTime, tRtcDiff, tDelayError,
                   tRemainingTime, ignoreArgs>>
    /\ UNCHANGED diffVars
    /\ UNCHANGED spawnVars
    /\ UNCHANGED fmtVars
    /\ UNCHANGED mainVars
    /\ UNCHANGED schedVars

\* SLEEP_OR_RETRY: one pass of the do-while body and its condition
\* (lines 89-115).
Nanosleep ==
    /\ pc = "sleep"
    /\ stage' = "sleep"
    /\ \E outcome \in SleepOutcomes :
       \E dRcSleep \in NanosleepReturn(outcome) :
       \E rem \in Remainders(tSleepTime) :
           /\ (outcome # "interrupted" => rem = ZeroTimespec)
           /\ sleepOutcome' = outcome
           /\ nInterrupted' = IF outcome = "interrupted"
                              THEN nInterrupted + 1 ELSE nInterrupted
           /\ tRemainingTime' = IF outcome = "interrupted"
                                THEN rem ELSE tRemainingTime
           /\ IF dRcSleep = 0
              THEN /\ pc' = "stop"
                   /\ UNCHANGED <<tSleepTime, dSleepCount, ret>>
              ELSE IF SleepRequestFailed(dRcSleep)
              THEN /\ Return(TEST_FAILED)
                   /\ UNCHANGED <<tSleepTime, dSleepCount>>
              ELSE /\ tSleepTime' = tRemainingTime'
                   /\ dSleepCount' = dSleepCount + 1
                   /\ pc' = IF SleepLoopContinues(tRemainingTime', dSleepCount')
                            THEN "sleep" ELSE "stop"
                   /\ UNCHANGED ret
    /\ UNCHANGED <<reClockTypeId, dIdx, tRtcStartTime, tRtcStopTime, tRtcDiff,
                   tDelayError, tSleepRequested, lastClockRc, ignoreArgs>>
    /\ UNCHANGED diffVars
    /\ UNCHANGED spawnVars
    /\ UNCHANGED fmtVars
    /\ UNCHANGED mainVars
    /\ UNCHANGED schedVars

\* Mutant of StopTimestamp: the return code of getTime is not looked at.
StopTimestamp_FailureIgnored ==
    /\ pc = "stop"
    /\ stage' = "stop"
    /\ \E r \in getTime(reClockTypeId, tRtcStartTime, tRtcStopTime) :
           /\ tRtcStopTime' = r.output
           /\ lastClockRc' = r.rc
           /\ pc' = "reduce"
           /\ UNCHANGED ret
    /\ UNCHANGED <<reClockTypeId, dIdx, tRtcStartTime, tRtcDiff, tDelayError,
                   tSleepTime, tSleepRequested, tRemainingTime, dSleepCount,
                   sleepOutcome, nInterrupted, ignoreArgs>>
    /\ UNCHANGED diffVars
    /\ UNCHANGED spawnVars
    /\ UNCHANGED fmtVars
    /\ UNCHANGED mainVars
    /\ UNCHANGED schedVars

\* STOP_TIMESTAMP (lines 117-121).
StopTimestamp ==
    /\ pc = "stop"
    /\ stage' = "stop"
    /\ \E r \in getTime(reClockTypeId, tRtcStartTime, tRtcStopTime) :
           /\ tRtcStopTime' = r.output
           /\ lastClockRc' = r.rc
           /\ IF r.rc # OK
              THEN Return(TEST_FAILED)
              ELSE /\ pc' = "reduce"
                   /\ UNCHANGED ret
    /\ UNCHANGED <<reClockTypeId, dIdx, tRtcStartTime, tRtcDiff, tDelayError,
                   tSleepTime, tSleepRequested, tRemainingTime, dSleepCount,
                   sleepOutcome, nInterrupted, ignoreArgs>>
    /\ UNCHANGED diffVars
    /\ UNCHANGED spawnVars
    /\ UNCHANGED fmtVars
    /\ UNCHANGED mainVars
    /\ UNCHANGED schedVars

\* REDUCE: the two difference computations (lines 123-135).
Reduce ==
    /\ pc = "reduce"
    /\ stage' = "reduce"
    /\ LET elapsed == timeDiffInTimespec(tRtcStartTime, tRtcStopTime, tRtcDiff,
                                         bIgnoreNegDeltaErrs)
       IN  /\ tRtcDiff' = elapsed.diff
           /\ IF elapsed.rc # OK /\ ~bIgnoreNegDeltaErrs
              THEN /\ Return(elapsed.rc)
                   /\ ignoreArgs' = <<bIgnoreNegDeltaErrs>>
                   /\ UNCHANGED tDelayError
              ELSE LET error == timeDiffInTimespec(tSleepRequested, elapsed.diff,
                                                   tDelayError, bIgnoreNegDeltaErrs)
                   IN  /\ tDelayError' = error.diff
                       /\ ignoreArgs' = <<bIgnoreNegDeltaErrs, bIgnoreNegDeltaErrs>>
                       /\ IF error.rc # OK /\ ~bIgnoreNegDeltaErrs
                          THEN Return(error.rc)
                          ELSE /\ pc' = "report"
                               /\ UNCHANGED ret
    /\ UNCHANGED <<reClockTypeId, dIdx, tRtcStartTime, tRtcStopTime, tSleepTime,
                   tSleepRequested, tRemainingTime, dSleepCount, sleepOutcome,
                   nInterrupted, lastClockRc>>
    /\ UNCHANGED diffVars
    /\ UNCHANGED spawnVars
    /\ UNCHANGED fmtVars
    /\ UNCHANGED mainVars
    /\ UNCHANGED schedVars

\* rt_time.h: timeDiffInSeconds asserts dDfStop >= dDfStart (the build does
\* not define NDEBUG).
timeDiffInSecondsAsserts(start, stop) == NotLater(start, stop)

\* Mutant of Report: the start timestamp is sampled once, before the loop,
\* so the next iteration goes straight to its sleep request.
Report_StartSampledOnce ==
    /\ pc = "report"
    /\ stage' = "report"
    /\ IF ~timeDiffInSecondsAsserts(tRtcStartTime, tRtcStopTime)
       THEN /\ pc' = "aborted"
            /\ UNCHANGED <<dIdx, ret>>
       ELSE /\ dIdx' = dIdx + 1
            /\ pc' = IF dIdx' < dTestIterations THEN "sleep" ELSE "returned"
            /\ ret' = OK
    /\ UNCHANGED <<reClockTypeId, tRtcStartTime, tRtcStopTime, tRtcDiff,
                   tDelayError, tSleepTime, tSleepRequested, tRemainingTime,
                   dSleepCount, sleepOutcome, nInterrupted, lastClockRc,
                   ignoreArgs>>
    /\ UNCHANGED diffVars
    /\ UNCHANGED spawnVars
    /\ UNCHANGED fmtVars
    /\ UNCHANGED mainVars
    /\ UNCHANGED schedVars

\* REPORT: endDelayTest and the sleep count are logged, then the loop goes on
\* or delayTest returns OK (lines 137-144). A failed assertion aborts.
Report ==
    /\ pc = "report"
    /\ stage' = "report"
    /\ IF ~timeDiffInSecondsAsserts(tRtcStartTime, tRtcStopTime)
       THEN /\ pc' = "aborted"
            /\ UNCHANGED <<dIdx, ret>>
       ELSE /\ dIdx' = dIdx + 1
            /\ pc' = IF dIdx' < dTestIterations THEN "start" ELSE "returned"
            /\ ret' = OK
    /\ UNCHANGED <<reClockTypeId, tRtcStartTime, tRtcStopTime, tRtcDiff,
                   tDelayError, tSleepTime, tSleepRequested, tRemainingTime,
                   dSleepCount, sleepOutcome, nInterrupted, lastClockRc,
                   ignoreArgs>>
    /\ UNCHANGED diffVars
    /\ UNCHANGED spawnVars
    /\ UNCHANGED fmtVars
    /\ UNCHANGED mainVars
    /\ UNCHANGED schedVars

Next ==
    \/ GetClockResolution
    \/ StartTimestamp
    \/ Nanosleep
    \/ StopTimestamp
    \/ Reduce
    \/ Report

Spec == Init /\ [][Next]_vars

\* delayTest when every clock query and every sleep request returns: a step
\* that can be taken is taken.
FairSpec == Init /\ [][Next]_vars /\ WF_vars(Next)

---------------------------------------------------------------------------
(* adjustScheduler (threading.h), called from the main thread, whose id    *)
(* is what myThreadId() = getpid() names.                                   *)

\* Bound: largest number of CPU indices in rtCpuSet.
MaxCpuSetSize == 2

\* CPU indices given to adjustScheduler: small ones, ones around the bit
\* capacities 8 * sizeof(pthread_attr_t), and the ends of a cpu_set_t.
CpuIndexValues == {0, 3, 300, 500, CPU_SETSIZE - 1, CPU_SETSIZE}

CpuSets == {c \in SUBSET CpuIndexValues : Cardinality(c) <= MaxCpuSetSize}

SchedPolicies == {SCHED_OTHER, SCHED_FIFO, SCHED_RR, SCHED_BATCH, SCHED_IDLE}

\* The policies pthread_attr_setschedpolicy accepts (EINVAL for any other).
AttrPolicies == {SCHED_OTHER, SCHED_FIFO, SCHED_RR}

\* sizeof(pthread_attr_t): 36 (32-bit ARM), 56 (x86-64), 64 (AArch64).
SizeofPthreadAttr == {36, 56, 64}

\* The checked library calls; failingCall names the one that reports an
\* error for a reason outside the arguments (EPERM, ENOMEM, ...).
CheckedCalls ==
    {"pthread_attr_setinheritsched", "pthread_attr_setschedpolicy",
     "pthread_attr_setaffinity_np", "sched_setscheduler",
     "pthread_attr_setschedparam"}

\* threading.h: getSchedulerPolicyStr.
getSchedulerPolicyStr(rdSchedPolicy) ==
    CASE rdSchedPolicy = SCHED_OTHER -> "SCHED_OTHER"
      [] rdSchedPolicy = SCHED_BATCH -> "SCHED_BATCH"
      [] rdSchedPolicy = SCHED_FIFO -> "SCHED_FIFO"
      [] rdSchedPolicy = SCHED_RR -> "SCHED_RR"
      [] OTHER -> "SCHED_IDLE"

\* Mutant of sched_get_priority_max: the lowest priority of the policy.
sched_get_priority_max_Lowest(policy) ==
    IF policy \in {SCHED_FIFO, SCHED_RR} THEN 1
    ELSE IF policy \in {SCHED_OTHER, SCHED_BATCH, SCHED_IDLE} THEN 0
    ELSE -1

\* sched_get_priority_max (Linux): 99 for the real-time policies, 0 for the
\* others, -1 for an unknown policy. The code does not check the result.
sched_get_priority_max(policy) ==
    IF policy \in {SCHED_FIFO, SCHED_RR} THEN 99
    ELSE IF policy \in {SCHED_OTHER, SCHED_BATCH, SCHED_IDLE} THEN 0
    ELSE -1

\* Lines 119-127: CPU_SET stores an index only below CPU_SETSIZE.
tActualCpuSet(cpuSet) == {dCpuIndex \in cpuSet : dCpuIndex < CPU_SETSIZE}

\* pthread_attr_setaffinity_np(attr, cpusetsize, cpuset) copies the first
\* cpusetsize bytes of the mask into the bundle.
pthread_attr_setaffinity_np(attr, cpusetsize, cpuset) ==
    [attr EXCEPT !.hasAffinity = TRUE,
                 !.cpuset = {c \in cpuset : c < 8 * cpusetsize}]

\* RET_ON_ERR with a failing call: the error is logged and GENERAL_ERR
\* returned (common.h 65-75).
RET_ON_ERR(st, call) ==
    [st EXCEPT !.rc = GENERAL_ERR,
               !.steps = Append(@, call),
               !.log = Append(@, <<"ERROR", call>>)]

\* Mutant of TraceSchedPolicy: the verbose block also puts the thread back
\* under the default policy.
TraceSchedPolicy_Resets(st, verbose, text) ==
    IF verbose
    THEN [st EXCEPT !.thread = DefaultSched,
                    !.log = Append(@, <<text, getSchedulerPolicyStr(st.thread.policy)>>)]
    ELSE st

\* The "if (rbVerbose)" blocks (lines 102-105, 141-144): the name of the
\* current thread's policy is logged.
TraceSchedPolicy(st, verbose, text) ==
    IF verbose
    THEN [st EXCEPT !.log = Append(@, <<text, getSchedulerPolicyStr(st.thread.policy)>>)]
    ELSE st

\* Lines 107-112.
InitAttr(st, fail) ==
    LET st1 == [st EXCEPT !.attr = DefaultAttr,
                          !.steps = Append(@, "pthread_attr_init")]
    IN  IF fail = "pthread_attr_setinheritsched"
        THEN RET_ON_ERR(st1, "pthread_attr_setinheritsched")
        ELSE [st1 EXCEPT !.attr.inheritsched = "PTHREAD_EXPLICIT_SCHED",
                         !.steps = Append(@, "pthread_attr_setinheritsched")]

\* Lines 113-114.
SetAttrPolicy(st, policy, fail) ==
    IF st.rc # OK THEN st
    ELSE IF fail = "pthread_attr_setschedpolicy" \/ policy \notin AttrPolicies
    THEN RET_ON_ERR(st, "pthread_attr_setschedpolicy")
    ELSE [st EXCEPT !.attr.schedpolicy = policy,
                    !.steps = Append(@, "pthread_attr_setschedpolicy")]

\* Lines 116-131.
SetAttrAffinity(st, cpuSet, bytes, fail) ==
    IF st.rc # OK \/ cpuSet = {} THEN st
    ELSE IF fail = "pthread_attr_setaffinity_np"
    THEN RET_ON_ERR(st, "pthread_attr_setaffinity_np")
    ELSE [st EXCEPT !.attr = pthread_attr_setaffinity_np(@, bytes,
                                                         tActualCpuSet(cpuSet)),
                    !.steps = Append(@, "pthread_attr_setaffinity_np")]

\* Lines 133-137: the main thread gets the policy with its highest priority.
SetScheduler(st, policy, fail) ==
    IF st.rc # OK THEN st
    ELSE LET st1 == [st EXCEPT !.steps = Append(@, "sched_get_priority_max")]
         IN  IF fail = "sched_setscheduler"
             THEN RET_ON_ERR(st1, "sched_setscheduler")
             ELSE [st1 EXCEPT !.thread = [policy |-> policy,
                                          priority |-> sched_get_priority_max(policy)],
                              !.steps = Append(@, "sched_setscheduler")]

\* Lines 138-139.
SetAttrParam(st, policy, fail) ==
    IF st.rc # OK THEN st
    ELSE IF fail = "pthread_attr_setschedparam"
    THEN RET_ON_ERR(st, "pthread_attr_setschedparam")
    ELSE [st EXCEPT !.attr.sched_priority = sched_get_priority_max(policy),
                    !.steps = Append(@, "pthread_attr_setschedparam")]

\* adjustScheduler: the bundle, the thread's scheduling, the calls made, the
\* messages logged and the return code it leaves.
adjustScheduler(cpuSet, policy, attr, verbose, thread, fail, bytes) ==
    LET st0 == [rc |-> OK, attr |-> attr, thread |-> thread,
                steps |-> <<>>, log |-> <<>>]
        st1 == TraceSchedPolicy(st0, verbose, "Initial sched policy")
        st2 == InitAttr(st1, fail)
        st3 == SetAttrPolicy(st2, policy, fail)
        st4 == SetAttrAffinity(st3, cpuSet, bytes, fail)
        st5 == SetScheduler(st4, policy, fail)
        st6 == SetAttrParam(st5, policy, fail)
    IN  IF st6.rc # OK
        THEN st6
        ELSE TraceSchedPolicy(st6, verbose, "Adjusted sched policy")

\* A bundle some earlier configuration left.
UsedAttr ==
    [inheritsched |-> "PTHREAD_EXPLICIT_SCHED", schedpolicy |-> SCHED_RR,
     sched_priority |-> 99, hasAffinity |-> TRUE, cpuset |-> {0}]

\* Scheduling the main thread may have when adjustScheduler is called.
ThreadScheds ==
    {DefaultSched, [policy |-> SCHED_BATCH, priority |-> 0],
     [policy |-> SCHED_RR, priority |-> 1],
     [policy |-> SCHED_IDLE, priority |-> 0],
     [policy |-> SCHED_DEADLINE, priority |-> 0]}

InitSched ==
    /\ sPc = "call"
    /\ rtCpuSet \in CpuSets
    /\ rtNewPolicy \in SchedPolicies
    /\ rtAdjustedAttr \in {DefaultAttr, UsedAttr}
    /\ rbVerbose \in BOOLEAN
    /\ failingCall \in CheckedCalls \cup {"none"}
    /\ attrBytes \in SizeofPthreadAttr
    /\ threadSched \in ThreadScheds
    /\ schedBefore = threadSched
    /\ sRc = OK
    /\ sSteps = <<>>
    /\ sLog = <<>>
    /\ DiffIdle
    /\ DelayIdle
    /\ MainIdle
    /\ SpawnIdle
    /\ FormatIdle

CallAdjustScheduler ==
    /\ sPc = "call"
    /\ LET r == adjustScheduler(rtCpuSet, rtNewPolicy, rtAdjustedAttr, rbVerbose,
                                threadSched, failingCall, attrBytes)
       IN  /\ sRc' = r.rc
           /\ rtAdjustedAttr' = r.attr
           /\ threadSched' = r.thread
           /\ sSteps' = r.steps
           /\ sLog' = r.log
    /\ sPc' = "done"
    /\ UNCHANGED <<rtCpuSet, rtNewPolicy, rbVerbose, failingCall, attrBytes,
                   schedBefore>>
    /\ UNCHANGED diffVars
    /\ UNCHANGED spawnVars
    /\ UNCHANGED fmtVars
    /\ UNCHANGED delayVars
    /\ UNCHANGED mainVars

NextSched == CallAdjustScheduler

SpecSched == InitSched /\ [][NextSched]_vars

---------------------------------------------------------------------------
(* main of posix_clock.cpp and the measurement thread.                     *)

\* <cstdlib>, as used in lines 200, 209 and 216.
EXIT_SUCCESS == 0
EXIT_FAILURE == 1

\* common.h: prepareSyslog, its return code only (truncate or uname failing).
prepareSyslog == {OK, GENERAL_ERR}

\* pthread_create in makeTestThread: created or not.
makeTestThread == {OK, PTHREAD_ERR}

delayLocals == <<reClockTypeId, dIdx, tRtcStartTime, tRtcStopTime, tRtcDiff,
                 tDelayError, tSleepTime, tSleepRequested, tRemainingTime,
                 dSleepCount, ret, stage, sleepOutcome, nInterrupted,
                 lastClockRc, ignoreArgs>>

schedInputs == <<rtCpuSet, rtNewPolicy, rbVerbose, failingCall, attrBytes,
                 schedBefore>>

\* main is entered; no thread exists yet. The arguments main will give to
\* adjustScheduler are those of lines 190-198: an empty CPU set, a
\* zero-initialised bundle, SCHED_FIFO, verbose.
InitMain ==
    /\ mainPc = "syslog"
    /\ tSyslogErr = OK
    /\ exitCode = 0
    /\ testCompleteLogged = FALSE
    /\ testThread = "none"
    /\ closelogRan = FALSE
    /\ mainLog = <<>>
    /\ nAdjustCalls = 0
    /\ sPc = "idle"
    /\ rtCpuSet = {}
    /\ rtNewPolicy = SCHED_FIFO
    /\ rtAdjustedAttr = DefaultAttr
    /\ rbVerbose = TRUE
    /\ failingCall \in (CheckedCalls \ {"pthread_attr_setaffinity_np"}) \cup {"none"}
    /\ attrBytes \in SizeofPthreadAttr
    /\ threadSched = DefaultSched
    /\ schedBefore = threadSched
    /\ sRc = OK
    /\ sSteps = <<>>
    /\ sLog = <<>>
    /\ DelayIdle
    /\ DiffIdle
    /\ SpawnIdle
    /\ FormatIdle

\* exit(): the process ends at once. No automatic object of main is
\* destroyed, so the handler of tSyslogGuard does not run.
Exit(code) ==
    /\ exitCode' = code
    /\ mainPc' = "exited"
    /\ closelogRan' = closelogRan

\* Line 179; pushUnameOutput logs the uname line when it succeeds.
PrepareSyslog ==
    /\ mainPc = "syslog"
    /\ tSyslogErr' \in prepareSyslog
    /\ mainLog' = IF tSyslogErr' = OK
                  THEN Append(mainLog, <<"DEBUG", "uname">>) ELSE mainLog
    /\ mainPc' = "sched"
    /\ UNCHANGED <<exitCode, testCompleteLogged, testThread, closelogRan,
                   nAdjustCalls>>
    /\ UNCHANGED delayVars
    /\ UNCHANGED diffVars
    /\ UNCHANGED spawnVars
    /\ UNCHANGED fmtVars
    /\ UNCHANGED schedVars

\* Mutant of AdjustScheduler: the return code is not looked at.
AdjustScheduler_FailureIgnored ==
    /\ mainPc = "sched"
    /\ LET r == adjustScheduler(rtCpuSet, rtNewPolicy, rtAdjustedAttr, rbVerbose,
                                threadSched, failingCall, attrBytes)
       IN  /\ sRc' = r.rc
           /\ rtAdjustedAttr' = r.attr
           /\ threadSched' = r.thread
           /\ sSteps' = r.steps
           /\ sLog' = r.log
           /\ mainLog' = mainLog \o r.log
           /\ mainPc' = "create"
           /\ UNCHANGED <<exitCode, closelogRan>>
    /\ sPc' = "done"
    /\ nAdjustCalls' = nAdjustCalls + 1
    /\ UNCHANGED <<tSyslogErr, testCompleteLogged, testThread>>
    /\ UNCHANGED schedInputs
    /\ UNCHANGED delayVars
    /\ UNCHANGED diffVars
    /\ UNCHANGED spawnVars
    /\ UNCHANGED fmtVars

\* Lines 188-201.
AdjustScheduler ==
    /\ mainPc = "sched"
    /\ LET r == adjustScheduler(rtCpuSet, rtNewPolicy, rtAdjustedAttr, rbVerbose,
                                threadSched, failingCall, attrBytes)
       IN  /\ sRc' = r.rc
           /\ rtAdjustedAttr' = r.attr
           /\ threadSched' = r.thread
           /\ sSteps' = r.steps
           /\ sLog' = r.log
           /\ mainLog' = mainLog \o r.log
           /\ IF r.rc # OK
              THEN Exit(EXIT_FAILURE)
              ELSE /\ mainPc' = "create"
                   /\ UNCHANGED <<exitCode, closelogRan>>
    /\ sPc' = "done"
    /\ nAdjustCalls' = nAdjustCalls + 1
    /\ UNCHANGED <<tSyslogErr, testCompleteLogged, testThread>>
    /\ UNCHANGED schedInputs
    /\ UNCHANGED delayVars
    /\ UNCHANGED diffVars
    /\ UNCHANGED spawnVars
    /\ UNCHANGED fmtVars

\* Lines 203-210: the thread is created only if Syslog was set up; the new
\* thread enters delayTest(ClockTypeId::MonotonicRaw).
MakeTestThread ==
    /\ mainPc = "create"
    /\ IF tSyslogErr # OK
       THEN /\ Exit(EXIT_FAILURE)
            /\ UNCHANGED <<testThread, pc, mainLog>>
       ELSE \E rc \in makeTestThread :
                IF rc # OK
                THEN /\ Exit(EXIT_FAILURE)
                     /\ mainLog' = Append(mainLog,
                                          <<"ERROR", "Failed to spawn the test thread">>)
                     /\ UNCHANGED <<testThread, pc>>
                ELSE /\ testThread' = "running"
                     /\ pc' = "resolution"
                     /\ mainPc' = "join"
                     /\ UNCHANGED <<exitCode, closelogRan, mainLog>>
    /\ UNCHANGED <<tSyslogErr, testCompleteLogged, nAdjustCalls>>
    /\ UNCHANGED delayLocals
    /\ UNCHANGED diffVars
    /\ UNCHANGED spawnVars
    /\ UNCHANGED fmtVars
    /\ UNCHANGED schedVars

\* The thread function after delayTest has returned (lines 157-162): an error
\* is logged, nothing else is kept of it.
TestThreadExit ==
    /\ testThread = "running"
    /\ pc = "returned"
    /\ testThread' = "terminated"
    /\ UNCHANGED <<mainPc, tSyslogErr, exitCode, testCompleteLogged,
                   closelogRan, mainLog, nAdjustCalls>>
    /\ UNCHANGED delayVars
    /\ UNCHANGED diffVars
    /\ UNCHANGED spawnVars
    /\ UNCHANGED fmtVars
    /\ UNCHANGED schedVars

\* Mutant of JoinAndExit: main does not wait for the thread.
JoinAndExit_NoJoin ==
    /\ mainPc = "join"
    /\ testCompleteLogged' = TRUE
    /\ mainLog' = Append(mainLog, <<"TRACE", "TEST COMPLETE">>)
    /\ Exit(EXIT_SUCCESS)
    /\ UNCHANGED <<tSyslogErr, testThread, nAdjustCalls>>
    /\ UNCHANGED delayVars
    /\ UNCHANGED diffVars
    /\ UNCHANGED spawnVars
    /\ UNCHANGED fmtVars
    /\ UNCHANGED schedVars

\* Lines 212-216: pthread_join returns once the thread has terminated.
JoinAndExit ==
    /\ mainPc = "join"
    /\ testThread = "terminated"
    /\ testCompleteLogged' = TRUE
    /\ mainLog' = Append(mainLog, <<"TRACE", "TEST COMPLETE">>)
    /\ Exit(EXIT_SUCCESS)
    /\ UNCHANGED <<tSyslogErr, testThread, nAdjustCalls>>
    /\ UNCHANGED delayVars
    /\ UNCHANGED diffVars
    /\ UNCHANGED spawnVars
    /\ UNCHANGED fmtVars
    /\ UNCHANGED schedVars

NextMain ==
    \/ PrepareSyslog
    \/ AdjustScheduler
    \/ MakeTestThread
    \/ GetClockResolution
    \/ StartTimestamp
    \/ Nanosleep
    \/ StopTimestamp
    \/ Reduce
    \/ Report
    \/ TestThreadExit
    \/ JoinAndExit

SpecMain == InitMain /\ [][NextMain]_vars

---------------------------------------------------------------------------
(* The worker-spawning programs: main of assignment 2 (spawnThreads runs   *)
(* in the main thread) and main of assignment 3 (a starter thread runs     *)
(* spawnThreads). Each worker is a thread of its own; exit() ends all of   *)
(* them.                                                                    *)

Programs == {"assignment2", "assignment3"}

\* Slots of the ThreadsArray, in the order the range-for loops visit them.
Slots == 1..NUM_THREADS

\* <errno.h>: what pthread_create reports when no thread can be created.
EAGAIN == 11

\* pthread_create: 0, or an error number.
pthread_create == {0, EAGAIN}

\* system("/usr/bin/truncate ..."), popen and fgets: done or failed.
CallOutcomes == BOOLEAN

\* Mutant of pushUnameOutput: the pipe is closed by a pclose before the last
\* return only.
pushUnameOutput_CloseAtEnd(popenOk, fgetsOk) ==
    IF ~popenOk
    THEN [rc |-> GENERAL_ERR, pFile |-> "null", nPclose |-> 0, logged |-> FALSE]
    ELSE IF ~fgetsOk
         THEN [rc |-> GENERAL_ERR, pFile |-> "open", nPclose |-> 0,
               logged |-> FALSE]
         ELSE [rc |-> OK, pFile |-> "closed", nPclose |-> 1, logged |-> TRUE]

\* common.h: pushUnameOutput. tPipeGuard is constructed after the check of
\* pFile, and its handler (pclose) runs when the function returns.
pushUnameOutput(popenOk, fgetsOk) ==
    IF ~popenOk
    THEN [rc |-> GENERAL_ERR, pFile |-> "null", nPclose |-> 0, logged |-> FALSE]
    ELSE LET tPipeGuard(r) == [r EXCEPT !.pFile = "closed", !.nPclose = @ + 1]
             opened == [rc |-> OK, pFile |-> "open", nPclose |-> 0,
                        logged |-> FALSE]
         IN  IF ~fgetsOk
             THEN tPipeGuard([opened EXCEPT !.rc = GENERAL_ERR])
             ELSE tPipeGuard([opened EXCEPT !.logged = TRUE])

\* The worker's workload: for (size_t i = 1; i < (dIdx + 1); ++i) dSum += i.
RECURSIVE SumLoop(_, _, _)
SumLoop(i, idx, dSum) ==
    IF i < idx + 1 THEN SumLoop(i + 1, idx, dSum + i) ELSE dSum

\* Mutant of ThreadParams: every worker is handed the loop counter of
\* spawnThreads.
ThreadParams_LoopCounter(p) == dSpawnIdx

\* What reinterpret_cast<ThreadArgs*>(pThreadParams)->dThreadIdx reads in the
\* worker of slot p: the entry of its own slot.
ThreadParams(p) == aThreads[p].dThreadIdx

\* The process has not called exit().
Alive == wMainPc # "exited"

InitSpawn ==
    /\ program \in Programs
    /\ wMainPc = "syslog"
    /\ wSyslogErr = OK
    /\ pFile = "unset"
    /\ nPclose = 0
    /\ unameLogged = FALSE
    /\ tWorkerThreadsAttr = DefaultAttr
    /\ starter = "none"
    /\ spawnPc = "idle"
    /\ dSpawnIdx = 0
    /\ tErr = OK
    /\ aThreads = NoThreads
    /\ worker = [p \in Slots |-> "none"]
    /\ workerIdx = [p \in Slots |-> 0]
    /\ workerLog = [p \in Slots |-> <<>>]
    /\ dJoined = 0
    /\ completePrinted = FALSE
    /\ wExitCode = 0
    /\ DiffIdle
    /\ DelayIdle
    /\ MainIdle
    /\ SchedIdle
    /\ FormatIdle

othersIdle == <<diffVars, delayVars, mainVars, schedVars, fmtVars>>

\* exit() in a worker-spawning main.
SpawnExit(code) ==
    /\ wExitCode' = code
    /\ wMainPc' = "exited"

\* prepareSyslog (common.h 178-194): truncate, openlog, pushUnameOutput.
SpawnPrepareSyslog ==
    /\ wMainPc = "syslog"
    /\ \E truncateOk \in CallOutcomes, popenOk \in CallOutcomes,
          fgetsOk \in CallOutcomes :
          IF ~truncateOk
          THEN /\ wSyslogErr' = GENERAL_ERR
               /\ UNCHANGED <<pFile, nPclose, unameLogged>>
          ELSE LET r == pushUnameOutput(popenOk, fgetsOk)
               IN  /\ wSyslogErr' = r.rc
                   /\ pFile' = r.pFile
                   /\ nPclose' = r.nPclose
                   /\ unameLogged' = r.logged
    /\ wMainPc' = IF program = "assignment3" THEN "sched" ELSE "spawn"
    /\ UNCHANGED <<program, tWorkerThreadsAttr, starter, spawnPc, dSpawnIdx,
                   tErr, aThreads, worker, workerIdx, workerLog, dJoined,
                   completePrinted, wExitCode>>
    /\ UNCHANGED othersIdle

\* Assignment 3, lines 394-409: CPU 3, SCHED_FIFO, verbose.
SpawnAdjustScheduler ==
    /\ wMainPc = "sched"
    /\ \E fail \in CheckedCalls \cup {"none"}, bytes \in SizeofPthreadAttr :
          LET r == adjustScheduler({3}, SCHED_FIFO, tWorkerThreadsAttr, TRUE,
                                   DefaultSched, fail, bytes)
          IN  /\ tWorkerThreadsAttr' = r.attr
              /\ IF r.rc # OK
                 THEN SpawnExit(EXIT_FAILURE)
                 ELSE /\ wMainPc' = "spawn"
                      /\ UNCHANGED wExitCode
    /\ UNCHANGED <<program, wSyslogErr, pFile, nPclose, unameLogged, starter,
                   spawnPc, dSpawnIdx, tErr, aThreads, worker, workerIdx,
                   workerLog, dJoined, completePrinted>>
    /\ UNCHANGED othersIdle

\* Assignment 2, line 135: the Syslog status is checked, then spawnThreads is
\* entered (size_t dIdx = THREADS_START_IDX).
EnterSpawnThreads ==
    /\ wMainPc = "spawn"
    /\ program = "assignment2"
    /\ IF wSyslogErr # OK
       THEN /\ SpawnExit(EXIT_FAILURE)
            /\ UNCHANGED <<spawnPc, dSpawnIdx>>
       ELSE /\ wMainPc' = "spawning"
            /\ spawnPc' = "loop"
            /\ dSpawnIdx' = THREADS_START_IDX
            /\ UNCHANGED wExitCode
    /\ UNCHANGED <<program, wSyslogErr, pFile, nPclose, unameLogged,
                   tWorkerThreadsAttr, starter, tErr, aThreads, worker,
                   workerIdx, workerLog, dJoined, completePrinted>>
    /\ UNCHANGED othersIdle

\* Assignment 3, lines 411-423 and makeStarterThread: the Syslog status is
\* checked, then the starter thread is created; it enters spawnThreads.
MakeStarterThread ==
    /\ wMainPc = "spawn"
    /\ program = "assignment3"
    /\ IF wSyslogErr # OK
       THEN /\ SpawnExit(EXIT_FAILURE)
            /\ UNCHANGED <<starter, spawnPc, dSpawnIdx>>
       ELSE \E dErr \in pthread_create :
                IF dErr # 0
                THEN /\ SpawnExit(EXIT_FAILURE)
                     /\ UNCHANGED <<starter, spawnPc, dSpawnIdx>>
                ELSE /\ starter' = "spawning"
                     /\ spawnPc' = "loop"
                     /\ dSpawnIdx' = THREADS_START_IDX
                     /\ wMainPc' = "join"
                     /\ UNCHANGED wExitCode
    /\ UNCHANGED <<program, wSyslogErr, pFile, nPclose, unameLogged,
                   tWorkerThreadsAttr, tErr, aThreads, worker, workerIdx,
                   workerLog, dJoined, completePrinted>>
    /\ UNCHANGED othersIdle

\* One iteration of the loop of spawnThreads: the index is stored in the
\* entry, then the worker is created; the function returns PTHREAD_ERR on a
\* failed creation and OK after the last entry.
SpawnOne ==
    /\ Alive
    /\ spawnPc = "loop"
    /\ LET p == dSpawnIdx - THREADS_START_IDX + 1
       IN  /\ dSpawnIdx' = dSpawnIdx + 1
           /\ \E dErr \in pthread_create :
                 IF dErr # 0
                 THEN /\ aThreads' = [aThreads EXCEPT ![p].dThreadIdx = dSpawnIdx]
                      /\ spawnPc' = "returned"
                      /\ tErr' = PTHREAD_ERR
                      /\ UNCHANGED worker
                 ELSE /\ aThreads' = [aThreads EXCEPT
                                         ![p] = [dThreadIdx |-> dSpawnIdx,
                                                 created |-> TRUE]]
                      /\ worker' = [worker EXCEPT ![p] = "started"]
                      /\ IF p = NUM_THREADS
                         THEN /\ spawnPc' = "returned"
                              /\ tErr' = OK
                         ELSE UNCHANGED <<spawnPc, tErr>>
    /\ UNCHANGED <<program, wMainPc, wSyslogErr, pFile, nPclose, unameLogged,
                   tWorkerThreadsAttr, starter, workerIdx, workerLog, dJoined,
                   completePrinted, wExitCode>>
    /\ UNCHANGED othersIdle

\* The caller of spawnThreads looks at what it returned. Assignment 2 (lines
\* 135-138): exit on an error, else the join loop. Assignment 3 (lines
\* 354-368): the starter thread reports an error and ends, else the join loop.
SpawnThreadsReturned ==
    /\ Alive
    /\ spawnPc = "returned"
    /\ spawnPc' = "idle"
    /\ IF program = "assignment2"
       THEN /\ wMainPc = "spawning"
            /\ IF tErr # OK
               THEN SpawnExit(EXIT_FAILURE)
               ELSE /\ wMainPc' = "join"
                    /\ UNCHANGED wExitCode
            /\ UNCHANGED starter
       ELSE /\ starter = "spawning"
            /\ starter' = IF tErr # OK THEN "terminated" ELSE "joining"
            /\ UNCHANGED <<wMainPc, wExitCode>>
    /\ UNCHANGED <<program, wSyslogErr, pFile, nPclose, unameLogged,
                   tWorkerThreadsAttr, dSpawnIdx, tErr, aThreads, worker,
                   workerIdx, workerLog, dJoined, completePrinted>>
    /\ UNCHANGED othersIdle

\* One pthread_join of the join loop (main in assignment 2, the starter thread
\* in assignment 3): it returns once the worker of the entry has terminated.
JoinWorker ==
    /\ Alive
    /\ spawnPc = "idle"
    /\ tErr = OK
    /\ \/ program = "assignment2" /\ wMainPc = "join"
       \/ program = "assignment3" /\ starter = "joining"
    /\ dJoined < NUM_THREADS
    /\ worker[dJoined + 1] = "terminated"
    /\ dJoined' = dJoined + 1
    /\ UNCHANGED <<program, wMainPc, wSyslogErr, pFile, nPclose, unameLogged,
                   tWorkerThreadsAttr, starter, spawnPc, dSpawnIdx, tErr,
                   aThreads, worker, workerIdx, workerLog, completePrinted,
                   wExitCode>>
    /\ UNCHANGED othersIdle

\* Assignment 3, line 368: the starter thread ends after its join loop.
StarterExit ==
    /\ Alive
    /\ starter = "joining"
    /\ dJoined = NUM_THREADS
    /\ starter' = "terminated"
    /\ UNCHANGED <<program, wMainPc, wSyslogErr, pFile, nPclose, unameLogged,
                   tWorkerThreadsAttr, spawnPc, dSpawnIdx, tErr, aThreads,
                   worker, workerIdx, workerLog, dJoined, completePrinted,
                   wExitCode>>
    /\ UNCHANGED othersIdle

\* The end of main: after its join loop (assignment 2, lines 141-147) or after
\* the join of the starter thread (assignment 3, lines 426-429).
TestComplete ==
    /\ wMainPc = "join"
    /\ IF program = "assignment2"
       THEN dJoined = NUM_THREADS
       ELSE starter = "terminated"
    /\ completePrinted' = TRUE
    /\ SpawnExit(EXIT_SUCCESS)
    /\ UNCHANGED <<program, wSyslogErr, pFile, nPclose, unameLogged,
                   tWorkerThreadsAttr, starter, spawnPc, dSpawnIdx, tErr,
                   aThreads, worker, workerIdx, workerLog, dJoined>>
    /\ UNCHANGED othersIdle

workerRest == <<program, wMainPc, wSyslogErr, pFile, nPclose, unameLogged,
                tWorkerThreadsAttr, starter, spawnPc, dSpawnIdx, tErr,
                aThreads, dJoined, completePrinted, wExitCode>>

\* The worker of slot p reads its argument.
WorkerRead(p) ==
    /\ Alive
    /\ worker[p] = "started"
    /\ workerIdx' = [workerIdx EXCEPT ![p] = ThreadParams(p)]
    /\ worker' = [worker EXCEPT ![p] = "read"]
    /\ UNCHANGED workerLog
    /\ UNCHANGED workerRest
    /\ UNCHANGED othersIdle

\* The worker of slot p sums and logs "Thread idx=%lu, sum[1..%lu]=%lu".
WorkerLog(p) ==
    /\ Alive
    /\ worker[p] = "read"
    /\ workerLog' = [workerLog EXCEPT
                        ![p] = <<workerIdx[p], workerIdx[p],
                                 SumLoop(1, workerIdx[p], 0)>>]
    /\ worker' = [worker EXCEPT ![p] = "logged"]
    /\ UNCHANGED workerIdx
    /\ UNCHANGED workerRest
    /\ UNCHANGED othersIdle

\* pthread_exit(nullptr) in the worker of slot p.
WorkerExit(p) ==
    /\ Alive
    /\ worker[p] = "logged"
    /\ worker' = [worker EXCEPT ![p] = "terminated"]
    /\ UNCHANGED <<workerIdx, workerLog>>
    /\ UNCHANGED workerRest
    /\ UNCHANGED othersIdle

NextSpawn ==
    \/ SpawnPrepareSyslog
    \/ SpawnAdjustScheduler
    \/ EnterSpawnThreads
    \/ MakeStarterThread
    \/ SpawnOne
    \/ SpawnThreadsReturned
    \/ JoinWorker
    \/ StarterExit
    \/ TestComplete
    \/ \E p \in Slots : WorkerRead(p)
    \/ \E p \in Slots : WorkerLog(p)
    \/ \E p \in Slots : WorkerExit(p)

SpecSpawn == InitSpawn /\ [][NextSpawn]_vars

---------------------------------------------------------------------------
(* format_va (str_utils, rt_time.h 198-227). A formatted message is        *)
(* modelled by its length; what a buffer or a string holds is a prefix of  *)
(* the message, given by its length.                                        *)

\* rt_time.h 202 and 206.
MAX_RESIZE_ATTEMPTS == 3
InitialBufferSize == 256

FormatLengths ==
    {n \in {k * InitialBufferSize + d : k \in 0..MaxFormatBlocks, d \in {-1, 0, 1}} :
        n >= 0}

Min(a, b) == IF a < b THEN a ELSE b

\* std::vsnprintf(buffer, size, ...) on a message of len characters: -1 on an
\* output error; else at most size - 1 characters and a NUL are stored, and
\* the length of the whole message is returned, stored or not.
vsnprintf(size, len, fails) ==
    IF fails
    THEN [ret |-> -1, chars |-> 0]
    ELSE [ret |-> len, chars |-> Min(len, size - 1)]

\* What the run does after an element outside the vector was written
\* (undefined behaviour): it goes on, or the process is killed.
OutsideWriteOutcomes == {"returned", "crashed"}

InitFormat ==
    /\ fPc = "loop"
    /\ fLen \in FormatLengths
    /\ fErrors \in 0..MaxOutputErrors
    /\ dBufLen = 0
    /\ dAttempt = 0
    /\ tFmtBuffer = [size |-> InitialBufferSize, chars |-> 0]
    /\ fOutside = FALSE
    /\ fResult = 0
    /\ DiffIdle
    /\ DelayIdle
    /\ MainIdle
    /\ SchedIdle
    /\ SpawnIdle

notFormat == <<diffVars, delayVars, mainVars, schedVars, spawnVars>>

\* One pass of the do-while loop (lines 208-222).
FormatAttempt ==
    /\ fPc = "loop"
    /\ LET r == vsnprintf(tFmtBuffer.size, fLen, fErrors > 0)
       IN  /\ dBufLen' = r.ret
           /\ fErrors' = IF fErrors > 0 THEN fErrors - 1 ELSE 0
           /\ IF r.ret # -1
              THEN /\ fPc' = "terminate"
                   /\ tFmtBuffer' = [tFmtBuffer EXCEPT !.chars = r.chars]
                   /\ UNCHANGED dAttempt
              ELSE /\ dAttempt' = dAttempt + 1
                   /\ IF dAttempt + 1 < MAX_RESIZE_ATTEMPTS
                      THEN /\ tFmtBuffer' = [size |-> tFmtBuffer.size * 2,
                                             chars |-> r.chars]
                           /\ UNCHANGED fPc
                      ELSE \* The assertion of line 217 fails.
                           /\ fPc' = "aborted"
                           /\ UNCHANGED tFmtBuffer
    /\ UNCHANGED <<fLen, fOutside, fResult>>
    /\ UNCHANGED notFormat

\* Lines 224-226: the terminator is stored at index dBufLen, and the string
\* up to the first NUL of the buffer is returned.
FormatReturn ==
    /\ fPc = "terminate"
    /\ IF dBufLen < tFmtBuffer.size
       THEN /\ fPc' = "returned"
            /\ tFmtBuffer' = [tFmtBuffer EXCEPT !.chars = Min(@, dBufLen)]
            /\ fResult' = Min(tFmtBuffer.chars, dBufLen)
            /\ UNCHANGED fOutside
       ELSE /\ fOutside' = TRUE
            /\ fPc' \in OutsideWriteOutcomes
            /\ fResult' = IF fPc' = "returned" THEN tFmtBuffer.chars ELSE 0
            /\ UNCHANGED tFmtBuffer
    /\ UNCHANGED <<fLen, fErrors, dBufLen, dAttempt>>
    /\ UNCHANGED notFormat

NextFormat ==
    \/ FormatAttempt
    \/ FormatReturn

SpecFormat == InitFormat /\ [][NextFormat]_vars

---------------------------------------------------------------------------
(* The three-argument timeDiffInTimespec of the earlier rt_time.h          *)
(* (part_000 49-121), one call on the inputs of SpecDiff (SpecDiff3).      *)

\* The branch dDeltaSec == 0 (lines 66-93).
timeDiffSameSecond3(dDeltaNsec, diff) ==
    IF dDeltaNsec < 0
    THEN [rc |-> OVERFLOW, diff |-> diff]
    ELSE IF dDeltaNsec >= 0 /\ dDeltaNsec < NSEC_PER_SEC
         THEN [rc |-> OK, diff |-> Timespec(0, dDeltaNsec)]
         ELSE IF dDeltaNsec > NSEC_PER_SEC
              THEN [rc |-> OK, diff |-> Timespec(1, dDeltaNsec - NSEC_PER_SEC)]
              ELSE [rc |-> OK, diff |-> diff]

\* The branch dDeltaSec != 0 (lines 94-118).
timeDiffSpanSeconds3(dDeltaSec, dDeltaNsec, diff) ==
    IF dDeltaNsec >= 0 /\ dDeltaNsec < NSEC_PER_SEC
    THEN [rc |-> OK, diff |-> Timespec(dDeltaSec, dDeltaNsec)]
    ELSE IF dDeltaNsec > NSEC_PER_SEC
         THEN \* ++rtDiff.tv_sec
              [rc |-> OK,
               diff |-> Timespec(diff.tv_sec + 1, dDeltaNsec - NSEC_PER_SEC)]
         ELSE \* --rtDiff.tv_sec
              [rc |-> OK,
               diff |-> Timespec(diff.tv_sec - 1, dDeltaNsec + NSEC_PER_SEC)]

\* The check of lines 53-56.
EndPointRejected3(start, stop) == stop.tv_sec >= start.tv_sec

timeDiffInTimespec3(start, stop, diff) ==
    IF EndPointRejected3(start, stop)
    THEN [rc |-> INVALID_ARGS, diff |-> diff]
    ELSE LET dDeltaSec == stop.tv_sec - start.tv_sec
             dDeltaNsec == stop.tv_nsec - start.tv_nsec
         IN  IF dDeltaSec = 0
             THEN timeDiffSameSecond3(dDeltaNsec, diff)
             ELSE timeDiffSpanSeconds3(dDeltaSec, dDeltaNsec, diff)

\* This version has no rbIgnoreNegDelta argument: the variable stays FALSE.
InitDiff3 ==
    /\ dPc = "call"
    /\ rtStart \in DiffTimePoints
    /\ rtStop \in DiffTimePoints
    /\ rtDiff \in PriorDiffs
    /\ rbIgnoreNegDelta = FALSE
    /\ dRc = OK
    /\ DelayIdle
    /\ MainIdle
    /\ SchedIdle
    /\ SpawnIdle
    /\ FormatIdle

CallTimeDiff3 ==
    /\ dPc = "call"
    /\ LET r == timeDiffInTimespec3(rtStart, rtStop, rtDiff)
       IN  /\ dRc' = r.rc
           /\ rtDiff' = r.diff
    /\ dPc' = "done"
    /\ UNCHANGED <<rtStart, rtStop, rbIgnoreNegDelta>>
    /\ UNCHANGED <<delayVars, mainVars, schedVars, spawnVars, fmtVars>>

NextDiff3 == CallTimeDiff3

SpecDiff3 == InitDiff3 /\ [][NextDiff3]_vars

---------------------------------------------------------------------------
\* Claims about timeDiffInTimespec (checked under SpecDiff).

DiffDone == dPc = "done"

RawDelta == Timespec(RawDeltaSec, RawDeltaNsec)

\* C1: for normalised start and stop with stop not earlier than start, and for
\* both values of ignoreNegative, the call returns OK and the result denotes
\* exactly stop - start in nanoseconds.
C1_ExactDifference ==
    (DiffDone /\ Normalized(rtStart) /\ Normalized(rtStop) /\ NotLater(rtStart, rtStop))
        => /\ dRc = OK
           /\ Canonical(rtDiff) = Canonical(RawDelta)

\* C1 witness: a borrow across a second boundary on normalised inputs.
C1_Witness ==
    /\ DiffDone
    /\ Normalized(rtStart) /\ Normalized(rtStop)
    /\ RawDeltaSec = 2 /\ RawDeltaNsec = 0 - NsecStep
    /\ rtDiff = Timespec(1, NSEC_PER_SEC - NsecStep)

\* C2 (as claimed): every Duration of a successful call has its nanoseconds in
\* [0, NSEC_PER_SEC).
C2_NsecInRange ==
    (DiffDone /\ dRc = OK) => (rtDiff.tv_nsec >= 0 /\ rtDiff.tv_nsec < NSEC_PER_SEC)

\* C3: OVERFLOW is returned iff the second-delta is 0, the nanosecond-delta is
\* negative and ignoreNegative is false; every other call returns OK.
C3_OverflowIff ==
    DiffDone =>
        /\ dRc = OVERFLOW <=>
               (RawDeltaSec = 0 /\ RawDeltaNsec < 0 /\ ~rbIgnoreNegDelta)
        /\ dRc # OVERFLOW => dRc = OK

\* C3 witness: a call that returned OVERFLOW.
C3_Witness ==
    DiffDone /\ dRc = OVERFLOW /\ RawDeltaSec = 0 /\ RawDeltaNsec < 0

\* C4 (as claimed): a negative delta within the same second with
\* ignoreNegative = true returns OK and hands the zero Duration to the caller.
C4_ZeroDurationReturned ==
    (DiffDone /\ RawDeltaSec = 0 /\ RawDeltaNsec < 0 /\ rbIgnoreNegDelta)
        => (dRc = OK /\ rtDiff = ZeroTimespec)

\* C5: a non-zero second-delta (of either sign) with a negative nanosecond-delta
\* gives seconds = second-delta - 1 and nanoseconds = nanosecond-delta + 1e9;
\* (0 s, 900 ms) to (1 s, 200 ms) gives (0 s, 300 ms).
C5_Borrow ==
    /\ (DiffDone /\ RawDeltaSec # 0 /\ RawDeltaNsec < 0)
           => /\ dRc = OK
              /\ rtDiff = Timespec(RawDeltaSec - 1, RawDeltaNsec + NSEC_PER_SEC)
    /\ (DiffDone /\ rtStart = Timespec(0, 9 * NsecStep) /\ rtStop = Timespec(1, 2 * NsecStep))
           => rtDiff = Timespec(0, 3 * NsecStep)

\* C5 witness: the carry example of the specification has been computed.
C5_Witness ==
    /\ DiffDone
    /\ rtStart = Timespec(0, 9 * NsecStep)
    /\ rtStop = Timespec(1, 2 * NsecStep)
    /\ rtDiff = Timespec(0, 3 * NsecStep)

\* C6 (as claimed): a nanosecond-delta of at least 1e9 gives seconds =
\* second-delta + 1 and nanoseconds = nanosecond-delta - 1e9, whatever the
\* second-delta.
C6_Rollover ==
    (DiffDone /\ RawDeltaNsec >= NSEC_PER_SEC)
        => /\ dRc = OK
           /\ rtDiff = Timespec(RawDeltaSec + 1, RawDeltaNsec - NSEC_PER_SEC)

\* C7: the difference of a time point with itself, ignoreNegative = false, is
\* OK with the zero Duration.
C7_SelfDifferenceZero ==
    (DiffDone /\ rtStart = rtStop /\ ~rbIgnoreNegDelta)
        => (dRc = OK /\ rtDiff = ZeroTimespec)

\* C7 witness: t - t was computed for a non-zero t over a non-zero old rtDiff.
C7_Witness ==
    /\ DiffDone
    /\ rtStart = rtStop /\ rtStart = Timespec(1, NsecStep)
    /\ ~rbIgnoreNegDelta
    /\ dRc = OK /\ rtDiff = ZeroTimespec


---------------------------------------------------------------------------
\* Claims about the sleep loop of delayTest (checked under Spec).

\* The step that ran last is the sleep request.
AfterSleepRequest == stage = "sleep"

\* The last sleep request was interrupted with time still remaining.
InterruptedWithTimeLeft ==
    /\ AfterSleepRequest
    /\ sleepOutcome = "interrupted"
    /\ tRemainingTime # ZeroTimespec

\* The iteration left the sleep loop on the retry bound, with time remaining.
RetryBoundExceeded ==
    /\ stage \in {"sleep", "stop", "reduce", "report"}
    /\ dSleepCount = MAX_SLEEP_COUNT
    /\ tRemainingTime # ZeroTimespec

\* C8 (as claimed): after a sleep request that was interrupted with time
\* remaining, the retry bound not yet reached, delayTest is about to request a
\* sleep of exactly the remaining time and has not returned TEST_FAILED.
C8_InterruptedSleepRetried ==
    (InterruptedWithTimeLeft /\ nInterrupted < MAX_SLEEP_COUNT)
        => /\ pc = "sleep"
           /\ tSleepTime = tRemainingTime
           /\ ~(pc = "returned" /\ ret = TEST_FAILED)

\* C9: the interruption counter never exceeds MAX_SLEEP_COUNT, no sleep request
\* is issued once it has reached it, and a request that succeeds or reports no
\* remaining time ends the retry loop at once.
C9_RetryBounded ==
    /\ dSleepCount <= MAX_SLEEP_COUNT
    /\ pc = "sleep" => dSleepCount < MAX_SLEEP_COUNT
    /\ (AfterSleepRequest /\ sleepOutcome = "slept") => pc = "stop"
    /\ (AfterSleepRequest /\ sleepOutcome = "interrupted"
            /\ tRemainingTime = ZeroTimespec) => pc # "sleep"

\* C9 witness: the third interruption of an iteration left time remaining and
\* the loop was left for the stop timestamp.
C9_Witness ==
    /\ InterruptedWithTimeLeft
    /\ dSleepCount = MAX_SLEEP_COUNT
    /\ pc = "stop"

\* C10 (as claimed): once the retry bound was exceeded, the iteration goes on to
\* the stop timestamp, and its REDUCE is followed by REPORT instead of a
\* failure, for every clock.
C10_ShortfallStillMeasured ==
    RetryBoundExceeded
        => /\ stage = "sleep" => pc = "stop"
           /\ stage = "reduce" => pc = "report"

---------------------------------------------------------------------------
(* Claims about the failure paths of delayTest (Spec).                     *)

\* C11: a sleep request that fails for a reason other than an interruption
\* makes delayTest return TEST_FAILED at that request: the failure is not
\* counted as a retry, and no stop timestamp, REDUCE, REPORT or further
\* iteration follows it.
C11_SleepFailureReturnsAtOnce ==
    sleepOutcome = "failed"
        => /\ stage = "sleep"
           /\ pc = "returned"
           /\ ret = TEST_FAILED
           /\ dSleepCount = nInterrupted

\* A sleep request of the second iteration fails after one interrupted request.
C11_Witness ==
    /\ sleepOutcome = "failed"
    /\ dIdx = 1
    /\ nInterrupted = 1
    /\ pc = "returned"
    /\ ret = TEST_FAILED

\* C12: a clock query failing at START_TIMESTAMP or STOP_TIMESTAMP makes
\* delayTest return TEST_FAILED at that query: no sleep request follows a
\* failed start sample, no REDUCE or REPORT follows a failed stop sample, and
\* no further iteration starts.
C12_ClockFailureReturnsAtOnce ==
    lastClockRc # OK
        => /\ stage \in {"start", "stop"}
           /\ pc = "returned"
           /\ ret = TEST_FAILED
           /\ stage = "start" => sleepOutcome = "none"

\* The stop sample of the second iteration fails.
C12_Witness ==
    /\ lastClockRc = CLOCK_ERROR
    /\ stage = "stop"
    /\ dIdx = 1
    /\ pc = "returned"
    /\ ret = TEST_FAILED

\* delayTest has returned before the loop ran all its iterations.
StoppedEarly == pc = "returned" /\ dIdx < dTestIterations

\* C13: whenever delayTest stops before completing all its iterations, the
\* value it returns is TEST_FAILED.
C13_EarlyStopReturnsTestFailed == StoppedEarly => ret = TEST_FAILED

---------------------------------------------------------------------------
(* Claims about main (SpecMain).                                           *)

MeasurementSucceeded == pc = "returned" /\ ret = OK

\* C14: the process exits with code 0, after the completion message, only if
\* Syslog and the scheduler were set up, the thread was created and delayTest
\* returned OK; every one of these failing gives a non-zero exit code.
C14_ExitCodeReflectsFailure ==
    mainPc = "exited"
        => /\ exitCode = EXIT_SUCCESS
                => tSyslogErr = OK /\ testCompleteLogged /\ MeasurementSucceeded
           /\ ~MeasurementSucceeded => exitCode # EXIT_SUCCESS

---------------------------------------------------------------------------
(* Claims about the iterations of delayTest (Spec, FairSpec).              *)

StopBeforeStart == ~NotLater(tRtcStartTime, tRtcStopTime)

\* C15: for every clock other than monotonic-raw, an iteration whose stop
\* timestamp is earlier than its start timestamp is reduced to a zero elapsed
\* Duration, reported, and followed by the next iteration (or by the return
\* of OK after the last one): the run neither aborts nor fails.
C15_NegativeElapsedTolerated ==
    (reClockTypeId # "MonotonicRaw" /\ StopBeforeStart)
        => /\ stage = "reduce" => pc = "report" /\ tRtcDiff = ZeroTimespec
           /\ stage = "report"
                => /\ pc \in {"start", "returned"}
                   /\ pc = "returned" => ret = OK /\ dIdx = dTestIterations

\* C16: REDUCE passes ignoreNegative = (clock is not monotonic-raw) to each
\* difference computation it makes, the same value to both; so no REDUCE
\* fails for the other clocks, and for monotonic-raw an elapsed time below
\* the request fails with OVERFLOW.
C16_IgnoreNegativePolicy ==
    stage = "reduce"
        => /\ Len(ignoreArgs) >= 1
           /\ \A i \in 1..Len(ignoreArgs) :
                  ignoreArgs[i] = (reClockTypeId # "MonotonicRaw")
           /\ pc = "report" => Len(ignoreArgs) = 2
           /\ reClockTypeId # "MonotonicRaw" => pc = "report"
           /\ (/\ reClockTypeId = "MonotonicRaw"
               /\ tRtcDiff.tv_sec = tSleepRequested.tv_sec
               /\ tRtcDiff.tv_nsec < tSleepRequested.tv_nsec)
                => pc = "returned" /\ ret = OVERFLOW

\* A real-time clock stepped back during the iteration: both computations
\* were made with ignoreNegative = true and REPORT is next.
C16_Witness ==
    /\ stage = "reduce"
    /\ reClockTypeId = "RealTime"
    /\ StopBeforeStart
    /\ ignoreArgs = <<TRUE, TRUE>>
    /\ pc = "report"

\* C17: within an iteration the start timestamp is sampled before the first
\* sleep request and the stop timestamp after the last one, and an iteration
\* samples its start timestamp only after the one before it finished REPORT.
C17_SamplingOrder ==
    [][/\ stage' = "start" => stage \in {"resolution", "report"}
       /\ (stage' = "start" /\ dIdx > 0) => stage = "report"
       /\ stage' = "sleep" => stage \in {"start", "sleep"}
       /\ stage' = "stop" => stage = "sleep"
       /\ stage' = "reduce" => stage = "stop"
       /\ stage' = "report" => stage = "reduce"]_vars

\* The second iteration has sampled its start timestamp.
C17_Witness ==
    /\ stage = "start"
    /\ dIdx = 1
    /\ pc = "sleep"

\* delayTest stops: it returns, or an assertion aborts the process.
DelayTestStops == <>(pc \in {"returned", "aborted"})

\* C18: when every clock query and every sleep request returns, delayTest
\* eventually returns, and if it returns OK the loop ran all its iterations.
C18_EventuallyReturns ==
    <>(pc = "returned" /\ (ret = OK => dIdx = dTestIterations))

\* C19: the request used in the error computation is (0 s, 10 ms) in every
\* iteration; retries change only the working sleep time, and the first
\* sleep request of every iteration asks for the full request.
C19_RequestNeverChanges ==
    LET request == Timespec(0, 10 * NSEC_PER_MSEC)
    IN  /\ stage \in {"start", "sleep", "stop", "reduce", "report"}
            => tSleepRequested = request
        /\ (stage = "start" /\ pc = "sleep") => tSleepTime = request
        /\ (/\ stage = "reduce"
            /\ pc = "report"
            /\ Normalized(tRtcDiff)
            /\ NotLater(request, tRtcDiff))
            => Canonical(tDelayError) =
               Canonical(Timespec(tRtcDiff.tv_sec,
                                  tRtcDiff.tv_nsec - 10 * NSEC_PER_MSEC))

\* The second iteration was interrupted, slept the rest and was reduced.
C19_Witness ==
    /\ stage = "reduce"
    /\ pc = "report"
    /\ dIdx = 1
    /\ nInterrupted >= 1
    /\ tSleepTime = Timespec(0, ClockStep)
    /\ tSleepRequested = Timespec(0, 10 * NSEC_PER_MSEC)
    /\ NotLater(tSleepRequested, tRtcDiff)

\* C20: the sleep count an iteration reports is the number of its sleep
\* requests that were interrupted; the counter is 0 when the iteration makes
\* its first sleep request.
C20_SleepCountIsInterruptions ==
    /\ (pc = "report" \/ stage = "report") => dSleepCount = nInterrupted
    /\ (stage = "start" /\ pc = "sleep") => dSleepCount = 0

\* The second iteration reports two interruptions.
C20_Witness ==
    /\ pc = "report"
    /\ dIdx = 1
    /\ dSleepCount = 2
    /\ nInterrupted = 2

---------------------------------------------------------------------------
(* Claims about adjustScheduler (SpecSched).                               *)

SchedDone == sPc = "done"

\* A checked call reported an error: RET_ON_ERR logged it.
StepFailed == \E i \in 1..Len(sLog) : sLog[i][1] = "ERROR"

\* C21: if a step of adjustScheduler fails, the failing call is the last one
\* made and adjustScheduler returns SCHED_FAILURE.
C21_FailureReturnsSchedFailure ==
    (SchedDone /\ StepFailed)
        => /\ sRc = SCHED_FAILURE
           /\ sSteps[Len(sSteps)] = sLog[Len(sLog)][2]

\* C22: when every underlying call succeeds adjustScheduler returns OK, and
\* whenever it returns OK the calling thread has the requested policy with the
\* highest priority of that policy (FIFO, 99 when FIFO was requested), and the
\* bundle carries explicit scheduling, the same policy and the same priority.
C22_ThreadAndBundleConfigured ==
    /\ (SchedDone /\ failingCall = "none" /\ rtNewPolicy \in AttrPolicies)
            => sRc = OK
    /\ (SchedDone /\ sRc = OK)
            => /\ threadSched.policy = rtNewPolicy
               /\ threadSched.priority =
                      IF rtNewPolicy \in {SCHED_FIFO, SCHED_RR} THEN 99 ELSE 0
               /\ rtAdjustedAttr.inheritsched = "PTHREAD_EXPLICIT_SCHED"
               /\ rtAdjustedAttr.schedpolicy = rtNewPolicy
               /\ rtAdjustedAttr.sched_priority = threadSched.priority

\* The end-to-end scenario: empty CPU set, FIFO, a thread under the default
\* policy and a bundle left by an earlier configuration.
C22_Witness ==
    /\ SchedDone
    /\ sRc = OK
    /\ rtCpuSet = {}
    /\ rtNewPolicy = SCHED_FIFO
    /\ schedBefore = DefaultSched
    /\ threadSched = [policy |-> SCHED_FIFO, priority |-> 99]
    /\ rtAdjustedAttr.sched_priority = 99
    /\ ~rtAdjustedAttr.hasAffinity

\* C23: after a successful adjustScheduler, an empty cpuSet leaves the bundle
\* without an affinity mask while every other step was made, and a non-empty
\* cpuSet leaves a mask holding exactly the CPU indices of cpuSet.
C23_AffinityMask ==
    (SchedDone /\ sRc = OK)
        => /\ rtCpuSet = {}
                => /\ ~rtAdjustedAttr.hasAffinity
                   /\ sSteps = <<"pthread_attr_init",
                                 "pthread_attr_setinheritsched",
                                 "pthread_attr_setschedpolicy",
                                 "sched_get_priority_max", "sched_setscheduler",
                                 "pthread_attr_setschedparam">>
           /\ rtCpuSet # {}
                => /\ rtAdjustedAttr.hasAffinity
                   /\ rtAdjustedAttr.cpuset = rtCpuSet

\* C24: the same call with the other value of verbose returns the same code,
\* makes the same library calls and leaves the thread's scheduling and the
\* bundle in the same state, whatever the bundle held before.
C24_VerboseNoEffect ==
    SchedDone
        => \A attr \in {DefaultAttr, UsedAttr} :
               LET other == adjustScheduler(rtCpuSet, rtNewPolicy, attr,
                                            ~rbVerbose, schedBefore,
                                            failingCall, attrBytes)
               IN  /\ other.rc = sRc
                   /\ other.thread = threadSched
                   /\ other.attr = rtAdjustedAttr
                   /\ other.steps = sSteps

\* A verbose call that logged both policy names and changed the thread.
C24_Witness ==
    /\ SchedDone
    /\ rbVerbose
    /\ sRc = OK
    /\ sLog = <<<<"Initial sched policy", "SCHED_OTHER">>,
                <<"Adjusted sched policy", "SCHED_FIFO">>>>
    /\ threadSched # schedBefore

\* C29: if adjustScheduler returns an error, the calling thread's live policy
\* and priority are what they were before the call.
C29_FailureLeavesThreadAlone ==
    (SchedDone /\ sRc # OK) => threadSched = schedBefore

\* cmn::ErrCode, the named values of the claim.
ErrCode ==
    [OK |-> OK, PTHREAD_ERR |-> PTHREAD_ERR, NOT_READY |-> NOT_READY,
     NOT_SUPPORTED |-> NOT_SUPPORTED, NOT_ENABLED |-> NOT_ENABLED,
     NOT_IMPLEMENTED |-> NOT_IMPLEMENTED, ALREADY_ENABLED |-> ALREADY_ENABLED,
     OVERFLOW |-> OVERFLOW, SCHED_FAILURE |-> SCHED_FAILURE,
     INVALID_ARGS |-> INVALID_ARGS, CLOCK_ERROR |-> CLOCK_ERROR,
     TEST_FAILED |-> TEST_FAILED, GENERAL_ERR |-> GENERAL_ERR]

\* The error kinds a numeric code names.
KindsOf(code) == {name \in DOMAIN ErrCode : ErrCode[name] = code}

\* C30: the named values of ErrCode are pairwise distinct, so the code
\* adjustScheduler returns names exactly one error kind.
C30_ErrCodesDistinct ==
    /\ \A a \in DOMAIN ErrCode : \A b \in DOMAIN ErrCode :
           a # b => ErrCode[a] # ErrCode[b]
    /\ SchedDone => Cardinality(KindsOf(sRc)) = 1

---------------------------------------------------------------------------
(* Claims about main and its measurement thread (SpecMain).                *)

\* C25: adjustScheduler is called at most once, and exactly once before main
\* goes on or exits; the measurement thread exists only after it returned OK
\* and Syslog was set up; if it fails no thread is created and delayTest
\* never runs.
C25_ThreadAfterSchedulerSetup ==
    /\ nAdjustCalls <= 1
    /\ mainPc \in {"create", "join", "exited"} => nAdjustCalls = 1
    /\ testThread # "none"
            => sPc = "done" /\ sRc = OK /\ tSyslogErr = OK /\ nAdjustCalls = 1
    /\ (sPc = "done" /\ sRc # OK)
            => testThread = "none" /\ pc = "idle" /\ stage = "none"
    /\ pc # "idle" => testThread # "none"

\* The thread runs delayTest under the configuration main set up.
C25_Witness ==
    /\ testThread = "running"
    /\ pc = "sleep"
    /\ nAdjustCalls = 1
    /\ sRc = OK
    /\ threadSched = [policy |-> SCHED_FIFO, priority |-> 99]

\* C26: while the measurement thread runs, main stays in join: it logs
\* nothing and changes neither the scheduling of a thread nor the bundle;
\* TEST COMPLETE is logged only once the thread has terminated, and once.
C26_MainOnlyJoins ==
    [][/\ testThread = "running"
            => /\ mainPc' = mainPc
               /\ mainLog' = mainLog
               /\ threadSched' = threadSched
               /\ rtAdjustedAttr' = rtAdjustedAttr
       /\ (/\ mainLog' # mainLog
           /\ mainLog'[Len(mainLog')] = <<"TRACE", "TEST COMPLETE">>)
            => /\ testThread = "terminated"
               /\ ~testCompleteLogged
               /\ \A i \in 1..Len(mainLog) :
                      mainLog[i] # <<"TRACE", "TEST COMPLETE">>]_vars

\* main has logged TEST COMPLETE after the thread ran its iterations.
C26_Witness ==
    /\ mainPc = "exited"
    /\ testThread = "terminated"
    /\ testCompleteLogged
    /\ mainLog[Len(mainLog)] = <<"TRACE", "TEST COMPLETE">>
    /\ dIdx = dTestIterations

\* C27: whenever main has left through exit, on the success path or a
\* failure path, the closelog handler of the guard has run.
C27_SyslogClosedOnExit == mainPc = "exited" => closelogRan

---------------------------------------------------------------------------
(* Claim about the values delayTest reports (Spec).                        *)

\* The iteration at REPORT passes the assertion of endDelayTest, so its
\* values are logged.
IterationReported == pc = "report" /\ NotLater(tRtcStartTime, tRtcStopTime)

\* C28: the elapsed Duration an iteration reports is its own stop minus its
\* own start, and the delay error it reports is that elapsed Duration minus
\* the request (or zero where the elapsed time is below the request): never a
\* value an earlier iteration computed.
C28_ReportedValuesAreFresh ==
    IterationReported
        => /\ Canonical(tRtcDiff) =
              Canonical(Timespec(tRtcStopTime.tv_sec - tRtcStartTime.tv_sec,
                                 tRtcStopTime.tv_nsec - tRtcStartTime.tv_nsec))
           /\ \/ Canonical(tDelayError) =
                 Canonical(Timespec(tRtcDiff.tv_sec - tSleepRequested.tv_sec,
                                    tRtcDiff.tv_nsec - tSleepRequested.tv_nsec))
              \/ /\ ~NotLater(tSleepRequested, tRtcDiff)
                 /\ tDelayError = ZeroTimespec

---------------------------------------------------------------------------
(* Claims about the worker-spawning programs (SpecSpawn).                  *)

\* The index the spawning loop gives to the worker of slot p.
IndexOf(p) == THREADS_START_IDX + p - 1

\* C31: the workers that exist hold the distinct indices 1..NUM_THREADS in
\* their entries; each worker that has read its argument has read the index
\* of its own entry, wherever the spawning loop and the other workers are;
\* and the line worker k logs carries sum[1..k] = k(k+1)/2.
C31_WorkersUseOwnIndex ==
    \A p \in Slots :
        /\ worker[p] # "none" => aThreads[p].dThreadIdx = IndexOf(p)
        /\ worker[p] \in {"read", "logged", "terminated"}
               => workerIdx[p] = IndexOf(p)
        /\ worker[p] \in {"logged", "terminated"}
               => workerLog[p] =
                     <<IndexOf(p), IndexOf(p), (IndexOf(p) * (IndexOf(p) + 1)) \div 2>>

\* The spawning loop is still running while the first worker has terminated
\* and the second has logged its line.
C31_Witness ==
    /\ spawnPc = "loop"
    /\ worker[1] = "terminated"
    /\ worker[2] = "logged"
    /\ workerLog[2] = <<2, 2, 3>>

\* C32: when TEST COMPLETE has been printed, every worker thread that was
\* created has terminated, also when a creation failed part-way.
C32_CompleteAfterAllWorkers ==
    completePrinted => \A p \in Slots : worker[p] \in {"none", "terminated"}

\* pushUnameOutput has been called and has returned.
UnameReturned == wMainPc # "syslog" /\ pFile # "unset"

\* C34: once popen has succeeded the pipe is closed exactly once when
\* pushUnameOutput has returned, whether the read failed (GENERAL_ERR) or
\* succeeded (OK); when popen failed no pclose is made and GENERAL_ERR is
\* returned.
C34_PipeClosedOnce ==
    UnameReturned
        => /\ pFile \in {"null", "closed"}
           /\ pFile = "closed" => nPclose = 1
           /\ pFile = "closed" => (wSyslogErr = OK <=> unameLogged)
           /\ pFile = "null" => nPclose = 0 /\ wSyslogErr = GENERAL_ERR

\* The pipe was opened, reading from it failed, and it was closed once.
C34_Witness ==
    /\ UnameReturned
    /\ pFile = "closed"
    /\ wSyslogErr = GENERAL_ERR
    /\ nPclose = 1

---------------------------------------------------------------------------
(* Claim about format_va (SpecFormat).                                     *)

\* C33: for every message length format_va writes no element outside its
\* buffer, and the string it returns is the whole formatted message, the
\* buffer having been doubled (at most MAX_RESIZE_ATTEMPTS times) until the
\* message fits.
C33_FormatCompleteInBounds ==
    /\ ~fOutside
    /\ fPc = "returned"
           => /\ fResult = fLen
              /\ tFmtBuffer.size > fLen
              /\ dAttempt <= MAX_RESIZE_ATTEMPTS

---------------------------------------------------------------------------
(* Claim about getSchedulerPolicyStr (SpecSched).                          *)

\* The name <sched.h> gives to a policy code.
PolicyName(policy) ==
    CASE policy = SCHED_OTHER -> "SCHED_OTHER"
      [] policy = SCHED_BATCH -> "SCHED_BATCH"
      [] policy = SCHED_FIFO -> "SCHED_FIFO"
      [] policy = SCHED_RR -> "SCHED_RR"
      [] policy = SCHED_IDLE -> "SCHED_IDLE"
      [] policy = SCHED_DEADLINE -> "SCHED_DEADLINE"

\* C35: each of the five policies is mapped to its own name, and a verbose
\* call that reports SCHED_IDLE as the initial policy was made by a thread
\* under the idle policy: the reported name is that of the actual policy.
C35_ReportedNameIsActualPolicy ==
    /\ \A policy \in SchedPolicies :
           getSchedulerPolicyStr(policy) = PolicyName(policy)
    /\ (sPc = "done" /\ rbVerbose)
           => /\ sLog[1][2] = "SCHED_IDLE" => schedBefore.policy = SCHED_IDLE
              /\ sLog[1][2] = PolicyName(schedBefore.policy)

---------------------------------------------------------------------------
(* Claim about the three-argument timeDiffInTimespec (SpecDiff3).          *)

\* C36: a call whose end point is later than its start returns OK with the
\* difference, and INVALID_ARGS is returned only when the end point is not
\* later than the start.
C36_LaterEndPointAccepted ==
    dPc = "done"
        => /\ ~NotLater(rtStop, rtStart)
                  => /\ dRc = OK
                     /\ Canonical(rtDiff) =
                           Canonical(Timespec(RawDeltaSec, RawDeltaNsec))
           /\ dRc = INVALID_ARGS => NotLater(rtStop, rtStart)


=============================================================================
